---------------------------- MODULE Spec2Model ----------------------------
(***************************************************************************)
(* A model of the nodeflow editor: the scene (nodes, ports, connections),  *)
(* the viewport transform, the pointer handlers of EditorDomEvents and the *)
(* part of the style registry that hit testing and removeNode read.        *)
(*                                                                         *)
(* Numbers are exact rationals <<numerator, denominator>> (denominator > 0,*)
(* lowest terms), so that the zoom factor 1.1 and the division by the      *)
(* scale in toWorld are computed, not approximated by integers.            *)
(*                                                                         *)
(* A behaviour of Spec is a sequence of at most MaxSteps host calls        *)
(* (addNode, removeNode, connectPorts, disconnect, clear) and canvas       *)
(* events (mousedown, mousemove, mouseup, wheel, the menu's frame          *)
(* callback), in any order and with any of the inputs listed below.        *)
(*                                                                         *)
(* The style engine (StyleState, StyleManager, ObservableMap, the editor's *)
(* style listeners) and the animation engine (Animation, AnimationManager, *)
(* the frame callbacks) are modelled in full for one node, one port and    *)
(* one connection; StyleSpec and AnimSpec explore them.                    *)
(***************************************************************************)
EXTENDS Integers, Sequences, FiniteSets, TLC

(***************************************************************************)
(* Bounds of the exploration.                                              *)
(***************************************************************************)
\* Node objects ever constructed by addNode.
MaxNodes == 3
\* Operations and events in one behaviour.
MaxSteps == 5
\* Wheel notches the scale may be away from 1, in either direction.
MaxZoom == 1
\* Calls in one behaviour of the style engine.
MaxCalls == 4
\* Calls in one behaviour of the animation engine.
MaxAnimCalls == 2
\* Operations and events in one behaviour of the scene under the pointer.
MaxHitSteps == 4
\* Instants at which time is observed, and the milliseconds between two of them.
MaxTicks == 4
TimeUnit == 50

(***************************************************************************)
(* Rational arithmetic.                                                    *)
(***************************************************************************)
Abs(i) == IF i < 0 THEN -i ELSE i

RECURSIVE GCD(_, _)
GCD(a, b) == IF b = 0 THEN a ELSE GCD(b, a % b)

Rat(n, d) ==
    LET s == IF d < 0 THEN -1 ELSE 1
        g == GCD(Abs(n), Abs(d))
    IN  <<(s * n) \div g, (s * d) \div g>>

RInt(i) == <<i, 1>>
RAdd(a, b) == Rat(a[1] * b[2] + b[1] * a[2], a[2] * b[2])
RSub(a, b) == Rat(a[1] * b[2] - b[1] * a[2], a[2] * b[2])
RMul(a, b) == Rat(a[1] * b[1], a[2] * b[2])
RDiv(a, b) == Rat(a[1] * b[2], a[2] * b[1])
RLe(a, b) == a[1] * b[2] <= b[1] * a[2]
RMin(a, b) == IF RLe(a, b) THEN a ELSE b
RMax(a, b) == IF RLe(a, b) THEN b ELSE a

Pos(x, y) == [x |-> x, y |-> y]
\* undefined and NaN where a number is expected: no rational has denominator 0
NoNumber == <<0, 0>>
\* mousePosition = null: no rational has denominator 0.
NoPosition == Pos(<<0, 0>>, <<0, 0>>)

(***************************************************************************)
(* Program constants.                                                      *)
(***************************************************************************)
DefaultNodeWidth == 120
DefaultNodeHeight == 50
DefaultPortRadius == 8
ZoomFactorNum == 11
ZoomFactorDen == 10
zoomFactor == Rat(ZoomFactorNum, ZoomFactorDen)

\* defaultStyles.node, as far as geometry reads it.
defaultNodeStyle == [width |-> RInt(DefaultNodeWidth), height |-> RInt(DefaultNodeHeight)]

(***************************************************************************)
(* Inputs.                                                                 *)
(***************************************************************************)
\* params.position of addNode
NodePositions == {Pos(RInt(100), RInt(100)), Pos(RInt(220), RInt(100))}
\* params.ports of addNode: the requested type and local position of each port
PortParams == {<<[type |-> "input", position |-> Pos(RInt(0), RInt(25))],
                 [type |-> "output", position |-> Pos(RInt(0), RInt(25))]>>}
\* params.style of addNode; NoStyleParam is an absent style
NoStyleParam == [width |-> <<0, 0>>, height |-> <<0, 0>>]
StyleParams == {NoStyleParam}
\* canvas-local pointer positions (e.offsetX, e.offsetY)
ScreenPoints == {<<100, 125>>, <<220, 125>>, <<340, 125>>, <<280, 125>>}
\* canvas-local pointer positions of wheel events
WheelPoints == {<<220, 125>>}
\* e.button: left, middle, right
Buttons == {0, 1, 2}

(***************************************************************************)
(* State.                                                                  *)
(***************************************************************************)
VARIABLES
    nodeObjs,               \* every Node constructed so far; a node's id is its index
    nodes,                  \* Editor.nodes: ids, in insertion order
    connections,            \* Editor.connections: [sourcePort, targetPort], in order
    scale, offsetX, offsetY,
    pendingConnectionPort,
    mousePosition,
    hoveredComponent,
    hoverFlags,             \* the components whose isHovered is true
    hoverLog,               \* the handleHover calls of the pointer move handled last
    nodeStyles,             \* StyleManager.nodeStyles: node id -> StyleState
    isDraggingNode, dragNode, dragOffsetX, dragOffsetY,
    grab,                   \* where the pointer went down on dragNode, and where the node was
    isPanning, panStartX, panStartY, panOffsetStartX, panOffsetStartY,
    menuOpen,               \* the context menu carries the class scale-in-center
    menuReopen,             \* a frame callback that re-opens the menu is pending
    steps,                  \* operations and events so far (exploration bound)
    last,                   \* the operation that ran last and how it ended
    managerDefaults,        \* StyleManager.defaultStyles: entity kind -> style
    registry,               \* the three style maps of StyleManager: entity -> StyleState
    call,                   \* the style call that ran last: what it emitted and requested
    callBefore,             \* the style call before that one
    animations,             \* AnimationManager.animations: the live Animation objects
    activeAnimations,       \* AnimationManager.activeAnimations: entity -> overrides
    isRunning,              \* AnimationManager.isRunning
    addedProps,             \* the props objects computeAnimationAdd handed to onAnimation
    rafQueue,               \* callbacks registered with requestAnimationFrame
    frameQueue,             \* callbacks of the frame being run, not yet called
    frameTime,              \* timestamp of the frame being run or run last
    now,                    \* performance.now()
    nextAnimation,          \* Animation objects constructed so far, plus one
    completed               \* onComplete invocations: animation id, value and time

sceneVars == <<nodeObjs, nodes, connections, nodeStyles>>
viewVars == <<scale, offsetX, offsetY>>
pendingVars == <<pendingConnectionPort, mousePosition>>
hoverVars == <<hoveredComponent, hoverFlags, hoverLog>>
dragVars == <<isDraggingNode, dragNode, dragOffsetX, dragOffsetY, grab>>
panVars == <<isPanning, panStartX, panStartY, panOffsetStartX, panOffsetStartY>>
menuVars == <<menuOpen, menuReopen>>
vars == <<nodeObjs, nodes, connections, scale, offsetX, offsetY, pendingConnectionPort,
          mousePosition, hoveredComponent, hoverFlags, hoverLog,
          nodeStyles, isDraggingNode, dragNode,
          dragOffsetX, dragOffsetY, grab, isPanning, panStartX, panStartY,
          panOffsetStartX, panOffsetStartY, menuOpen, menuReopen, steps, last,
          managerDefaults, registry, call, callBefore, animations, activeAnimations,
          isRunning, addedProps, rafQueue, frameQueue, frameTime, now, nextAnimation,
          completed>>
editorVars == <<nodeObjs, nodes, connections, scale, offsetX, offsetY,
                pendingConnectionPort, mousePosition, hoveredComponent, hoverFlags, hoverLog,
          nodeStyles,
                isDraggingNode, dragNode, dragOffsetX, dragOffsetY, grab, isPanning,
                panStartX, panStartY, panOffsetStartX, panOffsetStartY, menuOpen, menuReopen,
                last>>
styleVars == <<managerDefaults, registry, call, callBefore>>
schedulerVars == <<animations, activeAnimations, isRunning, addedProps, nextAnimation,
                   completed>>
frameVars == <<rafQueue, frameQueue, frameTime, now>>

(***************************************************************************)
(* Component references: a node is [node |-> id, port |-> 0], its k-th     *)
(* port is [node |-> id, port |-> k]; null is NoComponent.                 *)
(***************************************************************************)
Comp(n, k) == [node |-> n, port |-> k]
NoComponent == Comp(0, 0)
IsPort(c) == c.port > 0
IsNode(c) == c.node > 0 /\ c.port = 0
PortOf(c) == nodeObjs[c.node].ports[c.port]
\* every Port object constructed so far (ports of removed nodes included)
AllPorts == UNION {{Comp(n, k) : k \in 1..Len(nodeObjs[n].ports)} : n \in 1..Len(nodeObjs)}

Range(s) == {s[i] : i \in 1..Len(s)}
RECURSIVE SelectSeqBy(_, _)
SelectSeqBy(s, keep) ==
    IF s = <<>> THEN <<>>
    ELSE IF Head(s) \in keep THEN <<Head(s)>> \o SelectSeqBy(Tail(s), keep)
    ELSE SelectSeqBy(Tail(s), keep)

(***************************************************************************)
(* Style registry, as far as geometry reads it.                            *)
(***************************************************************************)
\* new StyleState(currentState, previousState?)
StyleState(currentState, previousState) ==
    [currentState |-> currentState, previousState |-> previousState]

\* StyleState.withUpdate, on the top-level keys width and height: a key the
\* update carries overwrites, the others are kept.
withUpdate(state, update) ==
    StyleState([width |-> IF update.width = <<0, 0>> THEN state.currentState.width
                          ELSE update.width,
                height |-> IF update.height = <<0, 0>> THEN state.currentState.height
                           ELSE update.height],
               state.currentState)

\* StyleManager.setNodeStyle(node, style) applied to the registry `styles`
setNodeStyle(styles, n, style) ==
    IF n \notin DOMAIN styles
    THEN (n :> StyleState([width |-> IF style.width = <<0, 0>> THEN defaultNodeStyle.width
                                     ELSE style.width,
                           height |-> IF style.height = <<0, 0>> THEN defaultNodeStyle.height
                                      ELSE style.height],
                          [width |-> IF style.width = <<0, 0>> THEN defaultNodeStyle.width
                                     ELSE style.width,
                           height |-> IF style.height = <<0, 0>> THEN defaultNodeStyle.height
                                      ELSE style.height])) @@ styles
    ELSE (n :> withUpdate(styles[n], style)) @@ styles

\* StyleManager.deleteNodeStyle(node)
deleteNodeStyle(styles, n) == [m \in DOMAIN styles \ {n} |-> styles[m]]

\* Node.handleHover on the registry: the modelled nodes carry no hover
\* sub-record, so both hover-in and hover-out re-apply the previous state.
NodeHandleHover(styles, n, isHovered) ==
    IF n \notin DOMAIN styles THEN styles
    ELSE setNodeStyle(styles, n, styles[n].previousState)

\* Port.handleHover changes fill only; Connection objects are never hit.
handleHover(styles, c, isHovered) ==
    IF IsNode(c) THEN NodeHandleHover(styles, c.node, isHovered) ELSE styles

(***************************************************************************)
(* Viewport transform and hit testing.                                     *)
(***************************************************************************)
toWorldWith(s, ox, oy, screenX, screenY) ==
    Pos(RDiv(RSub(RInt(screenX), ox), s), RDiv(RSub(RInt(screenY), oy), s))

toWorld(screenX, screenY) == toWorldWith(scale, offsetX, offsetY, screenX, screenY)

\* the port's resolved radius: every Port gets a Style State at construction
\* and no modelled operation changes its radius
PortRadius(c) == RInt(DefaultPortRadius)

\* dx*dx + dy*dy <= r*r; the squares are formed only when |dx|, |dy| <= r,
\* which the inequality implies, to keep the products small
PortHit(c, w) ==
    LET node == nodeObjs[c.node]
        px == RAdd(node.position.x, PortOf(c).position.x)
        py == RAdd(node.position.y, PortOf(c).position.y)
        r == PortRadius(c)
        dx == RSub(w.x, px)
        dy == RSub(w.y, py)
        small(d) == RLe(d, r) /\ RLe(RSub(RInt(0), r), d)
    IN  /\ small(dx)
        /\ small(dy)
        /\ RLe(RAdd(RMul(dx, dx), RMul(dy, dy)), RMul(r, r))

NodeHit(n, w) ==
    LET node == nodeObjs[n]
        style == IF n \in DOMAIN nodeStyles THEN nodeStyles[n].currentState
                 ELSE defaultNodeStyle
    IN  /\ RLe(node.position.x, w.x)
        /\ RLe(w.x, RAdd(node.position.x, style.width))
        /\ RLe(node.position.y, w.y)
        /\ RLe(w.y, RAdd(node.position.y, style.height))

\* the first loop of findComponentAt: nodes in list order, ports in port order
RECURSIVE FirstPortAt(_, _, _)
FirstPortAt(i, k, w) ==
    IF i > Len(nodes) THEN NoComponent
    ELSE IF k > Len(nodeObjs[nodes[i]].ports) THEN FirstPortAt(i + 1, 1, w)
    ELSE IF PortHit(Comp(nodes[i], k), w) THEN Comp(nodes[i], k)
    ELSE FirstPortAt(i, k + 1, w)

\* the second loop: nodes from the last of the list to the first
RECURSIVE TopNodeAt(_, _)
TopNodeAt(i, w) ==
    IF i < 1 THEN NoComponent
    ELSE IF NodeHit(nodes[i], w) THEN Comp(nodes[i], 0)
    ELSE TopNodeAt(i - 1, w)

\* faulty variant: the nodes are tested before the ports
findComponentAtNodesFirst(screenX, screenY) ==
    LET w == toWorld(screenX, screenY)
        node == TopNodeAt(Len(nodes), w)
    IN  IF node # NoComponent THEN node ELSE FirstPortAt(1, 1, w)

findComponentAt(screenX, screenY) ==
    LET w == toWorld(screenX, screenY)
        port == FirstPortAt(1, 1, w)
    IN  IF port # NoComponent THEN port ELSE TopNodeAt(Len(nodes), w)


Last(op, result) == [op |-> op, result |-> result]

\* one more operation or event of the behaviour; the operations of the scene
\* and the pointer handlers leave the style and animation engines as they are
Step ==
    /\ steps < MaxSteps
    /\ steps' = steps + 1
    /\ UNCHANGED <<styleVars, schedulerVars, frameVars>>

\* the scales the wheel may reach: zoomFactor^k, -MaxZoom <= k <= MaxZoom
RECURSIVE RPow(_, _)
RPow(r, k) == IF k = 0 THEN RInt(1) ELSE RMul(r, RPow(r, k - 1))
ZoomLevels == {RPow(zoomFactor, k) : k \in 0..MaxZoom}
                  \cup {RDiv(RInt(1), RPow(zoomFactor, k)) : k \in 0..MaxZoom}

(***************************************************************************)
(* Editor API.                                                             *)
(***************************************************************************)
\* the style addNode places the ports by: getTransitionableProps(params.style
\* || defaultStyle.node); a key that params.style lacks is undefined in it
portPlacementStyle(style) == IF style # NoStyleParam THEN style ELSE defaultNodeStyle

\* Math.min(height, Math.max(0, y)): NaN when height is undefined
clampedY(height, y) ==
    IF height = NoNumber THEN NoNumber ELSE RMin(height, RMax(RInt(0), y))

\* Editor.addNode.  A style parameter, when given, carries width, height or both.
AddNode(position, portParams, style) ==
    /\ Step
    /\ Len(nodeObjs) < MaxNodes
    /\ LET n == Len(nodeObjs) + 1
           unwrappedNodeStyle == portPlacementStyle(style)
           y(p) == clampedY(unwrappedNodeStyle.height, p.position.y)
           port(p) == [type |-> p.type,
                       position |-> IF p.type = "input" THEN Pos(RInt(0), y(p))
                                    ELSE Pos(unwrappedNodeStyle.width, y(p))]
           node == [position |-> position,
                    ports |-> [i \in 1..Len(portParams) |-> port(portParams[i])]]
           constructed == setNodeStyle(nodeStyles, n, NoStyleParam)
       IN  /\ nodeObjs' = Append(nodeObjs, node)
           /\ nodeStyles' = IF style # NoStyleParam THEN setNodeStyle(constructed, n, style)
                            ELSE constructed
           /\ nodes' = Append(nodes, n)
    /\ last' = Last("addNode", "ok")
    /\ UNCHANGED <<connections, viewVars, pendingVars, hoverVars, dragVars, panVars,
                   menuVars>>

\* faulty variant: the filter looks at the source port only
connectionsWithoutSource(list, n) ==
    LET keep(c) == ~(c.sourcePort.node = n)
    IN  SelectSeq(list, keep)

\* the filter of removeNode: the connections that do not touch node n
connectionsWithout(list, n) ==
    LET keep(c) == ~(c.sourcePort.node = n \/ c.targetPort.node = n)
    IN  SelectSeq(list, keep)

\* Editor.removeNode(nodeId), nodeId the id of a node constructed earlier
RemoveNode(n) ==
    /\ Step
    /\ n \in 1..Len(nodeObjs)
    /\ IF n \notin Range(nodes)
       THEN /\ last' = Last("removeNode", "Node not found")
            /\ UNCHANGED <<nodes, connections, nodeStyles>>
       ELSE /\ connections' = connectionsWithout(connections, n)
            /\ nodes' = SelectSeqBy(nodes, Range(nodes) \ {n})
            /\ nodeStyles' = deleteNodeStyle(nodeStyles, n)
            /\ last' = Last("removeNode", "ok")
    /\ UNCHANGED <<nodeObjs, viewVars, pendingVars, hoverVars, dragVars, panVars,
                   menuVars>>

\* the message of the error connectPorts raises
SameTypeError == "Cannot connect ports of the same type"

\* faulty variant: the duplicate test looks for the pair in the given order only
connectOutcomeOneWay(list, portA, portB) ==
    IF PortOf(portA).type = PortOf(portB).type THEN SameTypeError
    ELSE IF portA.node = portB.node THEN "same node"
    ELSE IF \E i \in 1..Len(list) :
                list[i].sourcePort = portA /\ list[i].targetPort = portB
         THEN "already connected"
    ELSE "connected"

\* faulty variant: the same-node test runs before the type test
connectOutcomeNodeFirst(list, portA, portB) ==
    IF portA.node = portB.node THEN "same node"
    ELSE IF PortOf(portA).type = PortOf(portB).type THEN SameTypeError
    ELSE IF \E i \in 1..Len(list) :
                \/ list[i].sourcePort = portA /\ list[i].targetPort = portB
                \/ list[i].sourcePort = portB /\ list[i].targetPort = portA
         THEN "already connected"
    ELSE "connected"

\* faulty variant: the type test is missing
connectOutcomeNoTypeTest(list, portA, portB) ==
    IF portA.node = portB.node THEN "same node"
    ELSE IF \E i \in 1..Len(list) :
                \/ list[i].sourcePort = portA /\ list[i].targetPort = portB
                \/ list[i].sourcePort = portB /\ list[i].targetPort = portA
         THEN "already connected"
    ELSE "connected"

\* how connectPorts(portA, portB) ends on the connection list `list`
connectOutcome(list, portA, portB) ==
    IF PortOf(portA).type = PortOf(portB).type THEN SameTypeError
    ELSE IF portA.node = portB.node THEN "same node"
    ELSE IF \E i \in 1..Len(list) :
                \/ list[i].sourcePort = portA /\ list[i].targetPort = portB
                \/ list[i].sourcePort = portB /\ list[i].targetPort = portA
         THEN "already connected"
    ELSE "connected"

\* faulty variant: the ports are stored in argument order
newConnectionAsGiven(portA, portB) == [sourcePort |-> portA, targetPort |-> portB]

\* the Connection that connectPorts constructs
newConnection(portA, portB) ==
    IF PortOf(portA).type = "output"
    THEN [sourcePort |-> portA, targetPort |-> portB]
    ELSE [sourcePort |-> portB, targetPort |-> portA]

\* faulty variant: the new connection is never pushed
connectPortsNoPush(list, portA, portB) == list

\* the connection list after connectPorts(portA, portB)
connectPorts(list, portA, portB) ==
    IF connectOutcome(list, portA, portB) = "connected"
    THEN Append(list, newConnection(portA, portB))
    ELSE list

\* Editor.connectPorts called by the host with any two ports it holds
ConnectPorts(portA, portB) ==
    /\ Step
    /\ portA \in AllPorts
    /\ portB \in AllPorts
    /\ connections' = connectPorts(connections, portA, portB)
    /\ last' = Last("connectPorts", connectOutcome(connections, portA, portB))
    /\ UNCHANGED <<nodeObjs, nodes, nodeStyles, viewVars, pendingVars, hoverVars,
                   dragVars, panVars, menuVars>>

\* the filter of disconnect: the list without its i-th connection
withoutConnection(list, i) == SubSeq(list, 1, i - 1) \o SubSeq(list, i + 1, Len(list))

\* Editor.disconnect(connection), connection the i-th of the list
Disconnect(i) ==
    /\ Step
    /\ i \in 1..Len(connections)
    /\ connections' = withoutConnection(connections, i)
    /\ last' = Last("disconnect", "ok")
    /\ UNCHANGED <<nodeObjs, nodes, nodeStyles, viewVars, pendingVars, hoverVars,
                   dragVars, panVars, menuVars>>

\* faulty variant: the connection list is not reset
ClearNodesOnly ==
    /\ Step
    /\ nodes' = <<>>
    /\ last' = Last("clear", "ok")
    /\ UNCHANGED <<nodeObjs, connections, nodeStyles, viewVars, pendingVars, hoverVars,
                   dragVars, panVars, menuVars>>

\* Editor.clear
Clear ==
    /\ Step
    /\ nodes' = <<>>
    /\ connections' = <<>>
    /\ last' = Last("clear", "ok")
    /\ UNCHANGED <<nodeObjs, nodeStyles, viewVars, pendingVars, hoverVars, dragVars,
                   panVars, menuVars>>


(***************************************************************************)
(* Pointer handlers of EditorDomEvents.  The listeners sit on the canvas,  *)
(* so the event target is never inside the context menu                    *)
(* (clickedOutsideMenu is true).                                           *)
(***************************************************************************)
\* EditorDomEvents.onMouseDown at canvas-local point p with e.button = button
onMouseDown(button, p) ==
    LET hovered == findComponentAt(p[1], p[2])
        pending == pendingConnectionPort
    IN
    IF menuOpen /\ button # 2
    THEN \* an open menu swallows the click
         /\ menuOpen' = FALSE
         /\ last' = Last("mouseDown", "menu closed")
         /\ UNCHANGED <<sceneVars, viewVars, pendingVars, hoverVars, dragVars, panVars,
                        menuReopen>>
    ELSE IF button = 2
    THEN /\ IF IsNode(hovered) THEN menuOpen' = ~menuOpen /\ UNCHANGED menuReopen
            ELSE IF menuOpen THEN menuOpen' = FALSE /\ menuReopen' = TRUE
            ELSE menuOpen' = TRUE /\ UNCHANGED menuReopen
         /\ last' = Last("mouseDown", "context menu")
         /\ UNCHANGED <<sceneVars, viewVars, pendingVars, hoverVars, dragVars, panVars>>
    ELSE IF button = 0 /\ IsPort(hovered)
    THEN IF pending # NoComponent /\ pending # hovered
         THEN LET outcome == connectOutcome(connections, pending, hovered)
              IN  IF outcome = SameTypeError
                  THEN \* connectPorts throws out of the handler
                       /\ last' = Last("mouseDown", outcome)
                       /\ UNCHANGED <<sceneVars, viewVars, pendingVars, hoverVars,
                                      dragVars, panVars, menuVars>>
                  ELSE /\ connections' = connectPorts(connections, pending, hovered)
                       /\ pendingConnectionPort' = NoComponent
                       /\ mousePosition' = NoPosition
                       /\ last' = Last("mouseDown", outcome)
                       /\ UNCHANGED <<nodeObjs, nodes, nodeStyles, viewVars, hoverVars,
                                      dragVars, panVars, menuVars>>
         ELSE /\ pendingConnectionPort' = hovered
              /\ mousePosition' = toWorld(p[1], p[2])
              /\ last' = Last("mouseDown", IF pending = NoComponent THEN "pending"
                                           ELSE "same port")
              /\ UNCHANGED <<sceneVars, viewVars, hoverVars, dragVars, panVars,
                             menuVars>>
    ELSE IF button = 0 /\ IsNode(hovered)
    THEN LET worldPos == toWorld(p[1], p[2])
         IN  /\ isDraggingNode' = TRUE
             /\ dragNode' = hovered.node
             /\ dragOffsetX' = RSub(worldPos.x, nodeObjs[hovered.node].position.x)
             /\ dragOffsetY' = RSub(worldPos.y, nodeObjs[hovered.node].position.y)
             /\ grab' = [point |-> p, position |-> nodeObjs[hovered.node].position]
             /\ last' = Last("mouseDown", "drag")
             /\ UNCHANGED <<sceneVars, viewVars, pendingVars, hoverVars, panVars,
                            menuVars>>
    ELSE IF (button = 0 /\ hovered = NoComponent) \/ button = 1
    THEN /\ isPanning' = TRUE
         /\ panStartX' = p[1]
         /\ panStartY' = p[2]
         /\ panOffsetStartX' = offsetX
         /\ panOffsetStartY' = offsetY
         /\ last' = Last("mouseDown", "pan")
         /\ UNCHANGED <<sceneVars, viewVars, pendingVars, hoverVars, dragVars,
                        menuVars>>
    ELSE /\ last' = Last("mouseDown", "render")
         /\ UNCHANGED <<sceneVars, viewVars, pendingVars, hoverVars, dragVars, panVars,
                        menuVars>>

\* a pointer-down event on the canvas
MouseDown(button, p) == Step /\ onMouseDown(button, p)

\* faulty variant: the new component is told first
hoverCallsNewFirst(currentHovered) ==
    IF currentHovered = hoveredComponent THEN <<>>
    ELSE (IF currentHovered # NoComponent
          THEN <<[component |-> currentHovered, isHovered |-> TRUE]>> ELSE <<>>)
         \o (IF hoveredComponent # NoComponent
             THEN <<[component |-> hoveredComponent, isHovered |-> FALSE]>> ELSE <<>>)

\* the calls of handleHover onMouseMove makes, in order, when the hit test
\* gave currentHovered
hoverCalls(currentHovered) ==
    IF currentHovered = hoveredComponent THEN <<>>
    ELSE (IF hoveredComponent # NoComponent
          THEN <<[component |-> hoveredComponent, isHovered |-> FALSE]>> ELSE <<>>)
         \o (IF currentHovered # NoComponent
             THEN <<[component |-> currentHovered, isHovered |-> TRUE]>> ELSE <<>>)

\* Component.setIsHovered, which every handleHover calls first, for each call
\* in turn
RECURSIVE setIsHovered(_, _)
setIsHovered(flags, calls) ==
    IF calls = <<>> THEN flags
    ELSE setIsHovered(IF Head(calls).isHovered THEN flags \cup {Head(calls).component}
                      ELSE flags \ {Head(calls).component},
                      Tail(calls))

\* the style registry after the hover hooks of onMouseMove
hoverStyles(currentHovered) ==
    IF currentHovered = hoveredComponent THEN nodeStyles
    ELSE LET left == IF hoveredComponent # NoComponent
                     THEN handleHover(nodeStyles, hoveredComponent, FALSE)
                     ELSE nodeStyles
         IN  IF currentHovered # NoComponent THEN handleHover(left, currentHovered, TRUE)
             ELSE left

\* faulty variant: the node jumps to the pointer
dragPositionAtPointer(worldPos) == worldPos

\* the position onMouseMove gives the dragged node: the pointer's world
\* position minus the offset kept at pointer-down
dragPosition(worldPos) == Pos(RSub(worldPos.x, dragOffsetX), RSub(worldPos.y, dragOffsetY))

\* faulty variant: panning and dragging come before the pending connection
MouseMovePendingLast(p) ==
    LET currentHovered == findComponentAt(p[1], p[2])
    IN  /\ Step
        /\ hoveredComponent' = currentHovered
        /\ hoverFlags' = setIsHovered(hoverFlags, hoverCalls(currentHovered))
        /\ hoverLog' = hoverCalls(currentHovered)
        /\ nodeStyles' = hoverStyles(currentHovered)
        /\ IF isPanning
           THEN /\ offsetX' = RAdd(panOffsetStartX, RInt(p[1] - panStartX))
                /\ offsetY' = RAdd(panOffsetStartY, RInt(p[2] - panStartY))
                /\ last' = Last("mouseMove", "pan")
                /\ UNCHANGED <<nodeObjs, scale, mousePosition>>
           ELSE IF isDraggingNode /\ dragNode # 0
           THEN LET worldPos == toWorld(p[1], p[2])
                IN  /\ nodeObjs' = [nodeObjs EXCEPT ![dragNode].position =
                                        dragPosition(worldPos)]
                    /\ last' = Last("mouseMove", "drag")
                    /\ UNCHANGED <<viewVars, mousePosition>>
           ELSE IF pendingConnectionPort # NoComponent
           THEN /\ mousePosition' = toWorld(p[1], p[2])
                /\ last' = Last("mouseMove", "pending")
                /\ UNCHANGED <<nodeObjs, viewVars>>
           ELSE /\ last' = Last("mouseMove", "hover")
                /\ UNCHANGED <<nodeObjs, viewVars, mousePosition>>
        /\ UNCHANGED <<nodes, connections, pendingConnectionPort, dragVars, panVars, menuVars>>

\* EditorDomEvents.onMouseMove at canvas-local point p
MouseMove(p) ==
    LET currentHovered == findComponentAt(p[1], p[2])
    IN  /\ Step
        /\ hoveredComponent' = currentHovered
        /\ hoverFlags' = setIsHovered(hoverFlags, hoverCalls(currentHovered))
        /\ hoverLog' = hoverCalls(currentHovered)
        /\ nodeStyles' = hoverStyles(currentHovered)
        /\ IF pendingConnectionPort # NoComponent
           THEN /\ mousePosition' = toWorld(p[1], p[2])
                /\ last' = Last("mouseMove", "pending")
                /\ UNCHANGED <<nodeObjs, viewVars>>
           ELSE IF isPanning
           THEN /\ offsetX' = RAdd(panOffsetStartX, RInt(p[1] - panStartX))
                /\ offsetY' = RAdd(panOffsetStartY, RInt(p[2] - panStartY))
                /\ last' = Last("mouseMove", "pan")
                /\ UNCHANGED <<nodeObjs, scale, mousePosition>>
           ELSE IF isDraggingNode /\ dragNode # 0
           THEN LET worldPos == toWorld(p[1], p[2])
                IN  /\ nodeObjs' = [nodeObjs EXCEPT ![dragNode].position =
                                        dragPosition(worldPos)]
                    /\ last' = Last("mouseMove", "drag")
                    /\ UNCHANGED <<viewVars, mousePosition>>
           ELSE /\ last' = Last("mouseMove", "hover")
                /\ UNCHANGED <<nodeObjs, viewVars, mousePosition>>
        /\ UNCHANGED <<nodes, connections, pendingConnectionPort, dragVars, panVars, menuVars>>

\* faulty variant: the dragged node is kept
MouseUpKeepsNode ==
    /\ Step
    /\ isDraggingNode' = FALSE
    /\ isPanning' = FALSE
    /\ last' = Last("mouseUp", "ok")
    /\ UNCHANGED <<sceneVars, viewVars, pendingVars, hoverVars, dragNode, dragOffsetX,
                   dragOffsetY, grab, panStartX, panStartY, panOffsetStartX, panOffsetStartY,
                   menuVars>>

\* EditorDomEvents.onMouseUp
MouseUp ==
    /\ Step
    /\ isDraggingNode' = FALSE
    /\ dragNode' = 0
    /\ isPanning' = FALSE
    /\ last' = Last("mouseUp", "ok")
    /\ UNCHANGED <<sceneVars, viewVars, pendingVars, hoverVars, dragOffsetX,
                   dragOffsetY, grab, panStartX, panStartY, panOffsetStartX, panOffsetStartY,
                   menuVars>>

\* faulty variant: the scale changes and the offset stays
WheelKeepsOffset(p, zoomIn) ==
    LET newScale == IF zoomIn THEN RMul(scale, zoomFactor) ELSE RDiv(scale, zoomFactor)
    IN  /\ Step
        /\ newScale \in ZoomLevels
        /\ scale' = newScale
        /\ last' = Last("wheel", IF zoomIn THEN "in" ELSE "out")
        /\ UNCHANGED <<sceneVars, offsetX, offsetY, pendingVars, hoverVars, dragVars,
                       panVars, menuVars>>

\* EditorDomEvents.onWheel at canvas-local point p; zoomIn is deltaY < 0
Wheel(p, zoomIn) ==
    LET beforeZoom == toWorld(p[1], p[2])
        newScale == IF zoomIn THEN RMul(scale, zoomFactor) ELSE RDiv(scale, zoomFactor)
        afterZoom == toWorldWith(newScale, offsetX, offsetY, p[1], p[2])
    IN  /\ Step
        /\ newScale \in ZoomLevels
        /\ scale' = newScale
        /\ offsetX' = RAdd(offsetX, RMul(RSub(afterZoom.x, beforeZoom.x), newScale))
        /\ offsetY' = RAdd(offsetY, RMul(RSub(afterZoom.y, beforeZoom.y), newScale))
        /\ last' = Last("wheel", IF zoomIn THEN "in" ELSE "out")
        /\ UNCHANGED <<sceneVars, pendingVars, hoverVars, dragVars, panVars, menuVars>>

\* the frame callback that toggleContextMenu({reopen: true}) requested
MenuReopenFrame ==
    /\ Step
    /\ menuReopen
    /\ menuOpen' = TRUE
    /\ menuReopen' = FALSE
    /\ last' = Last("menuFrame", "ok")
    /\ UNCHANGED <<sceneVars, viewVars, pendingVars, hoverVars, dragVars, panVars>>


(***************************************************************************)
(* The style engine, in full, for three entities: one node, one port and   *)
(* one connection.                                                         *)
(*                                                                         *)
(* A style value is [kind, v]: a number, a colour string (v is its RGB code)*)
(* or another string (v names it); v is a rational.  A top-level property  *)
(* holds a plain value or a wrapper {transition, value}; ref tells wrapper *)
(* objects apart (0 for the wrappers of the built-in defaults, otherwise   *)
(* the number of the call that brought the object in).  A style object is  *)
(* [props, hover, active, animation, own]: its top-level properties, its   *)
(* three sub-records, and which of the three keys it owns (a key may be    *)
(* owned and hold undefined).                                              *)
(***************************************************************************)
Entities == {"node", "port", "connection"}

Num(n) == [kind |-> "number", v |-> RInt(n)]
Colour(rgb) == [kind |-> "color", v |-> RInt(rgb)]
Text(t) == [kind |-> "text", v |-> RInt(t)]

Plain(value) == [transition |-> "none", value |-> value, ref |-> 0]
Wrapper(transition, value, ref) ==
    [transition |-> IF transition THEN "true" ELSE "false", value |-> value, ref |-> ref]

EmptyRecord == [k \in {} |-> Num(0)]
Undefined == [defined |-> FALSE, props |-> EmptyRecord]
SubRecord(props) == [defined |-> TRUE, props |-> props]
SubKeys == {"hover", "active", "animation"}

\* {...a, ...b}
Spread(a, b) == [k \in DOMAIN a \cup DOMAIN b |-> IF k \in DOMAIN b THEN b[k] ELSE a[k]]

\* the order in which Object.entries lists the top-level properties of a style
\* object: the order of the built-in defaults
KeyOrder ==
    [node |-> <<"width", "fill", "borderColor", "labelFont">>,
     port |-> <<"fill", "radius">>,
     connection |-> <<"color", "width">>]

\* defaultStyles: width 120, fill {transition: false, value: '#2D2D3A'},
\* borderColor {transition: true, value: '#404052'}, labelFont '16px Inter, serif',
\* active.borderColor '#6C6C8C'; port fill '#565676', radius 8, hover.fill
\* '#6C6C8C'; connection color '#787878', width 3
defaultStyles ==
    [node |-> [props |-> [width |-> Plain(Num(DefaultNodeWidth)),
                          fill |-> Wrapper(FALSE, Colour(2960698), 0),
                          borderColor |-> Wrapper(TRUE, Colour(4210770), 0),
                          labelFont |-> Plain(Text(1))],
               hover |-> Undefined,
               active |-> SubRecord([borderColor |-> Colour(7105676)]),
               animation |-> Undefined,
               own |-> {"active"}],
     port |-> [props |-> [fill |-> Plain(Colour(5658230)),
                          radius |-> Plain(Num(DefaultPortRadius))],
               hover |-> SubRecord([fill |-> Colour(7105676)]),
               active |-> Undefined,
               animation |-> Undefined,
               own |-> {"hover"}],
     connection |-> [props |-> [color |-> Plain(Colour(7895160)),
                                width |-> Plain(Num(3))],
                     hover |-> Undefined,
                     active |-> Undefined,
                     animation |-> Undefined,
                     own |-> {}]]

\* a partial style a caller passes: the top-level properties and sub-records it names
Partial(props, hover, animation) ==
    [props |-> props, hover |-> hover, active |-> Undefined, animation |-> animation,
     own |-> (IF hover.defined THEN {"hover"} ELSE {})
                 \cup (IF animation.defined THEN {"animation"} ELSE {})]

\* {} and undefined
EmptyStyle == Partial(EmptyRecord, Undefined, Undefined)

\* new StyleState(currentState): previousState is the same object
FirstStyleState(currentState) == StyleState(currentState, currentState)

\* faulty variant: the sub-record of the update replaces the current one
mergedSubReplaces(current, update) == IF update.defined THEN update ELSE current

\* the merged sub-record of withUpdate: update.x ? {...current.x, ...update.x} : current.x
mergedSub(current, update) ==
    IF update.defined THEN SubRecord(Spread(current.props, update.props)) ELSE current

\* withUpdate keeping the previousState of the state it updates
stateWithUpdateKeepsPrevious(state, update) ==
    StyleState([props |-> Spread(state.currentState.props, update.props),
                hover |-> mergedSub(state.currentState.hover, update.hover),
                active |-> mergedSub(state.currentState.active, update.active),
                animation |-> mergedSub(state.currentState.animation, update.animation),
                own |-> SubKeys],
               state.previousState)

\* StyleState.withUpdate(update)
stateWithUpdate(state, update) ==
    StyleState([props |-> Spread(state.currentState.props, update.props),
                  hover |-> mergedSub(state.currentState.hover, update.hover),
                  active |-> mergedSub(state.currentState.active, update.active),
                  animation |-> mergedSub(state.currentState.animation, update.animation),
                  own |-> SubKeys],
                 state.currentState)

\* a first Style State seeded from the built-in defaults, whatever the
\* defaults of the manager are
initialStateBuiltIn(defaults, e, style) ==
    LET sub(key) == IF key \in style.own THEN style[key] ELSE defaultStyles[e][key]
    IN  [props |-> Spread(defaultStyles[e].props, style.props),
         hover |-> sub("hover"),
         active |-> sub("active"),
         animation |-> sub("animation"),
         own |-> defaultStyles[e].own \cup style.own]

\* the first Style State of an entity: {...defaultStyles.<kind>, ...style}
initialState(defaults, e, style) ==
    LET sub(key) == IF key \in style.own THEN style[key] ELSE defaults[e][key]
    IN  [props |-> Spread(defaults[e].props, style.props),
         hover |-> sub("hover"),
         active |-> sub("active"),
         animation |-> sub("animation"),
         own |-> defaults[e].own \cup style.own]

\* the Style State that setNodeStyle, setPortStyle and setConnectionStyle hand
\* to the style map of the entity
setEntityStyle(defaults, styles, e, style) ==
    IF e \notin DOMAIN styles
    THEN FirstStyleState(initialState(defaults, e, style))
    ELSE stateWithUpdate(styles[e], style)

\* StyleManager.getTransitionableProp
getTransitionableProp(prop) == IF prop.transition # "none" THEN Plain(prop.value) ELSE prop

\* StyleManager.getTransitionableProps: top-level wrappers unwrapped, the
\* sub-records that are set copied, the others left out
getTransitionableProps(style) ==
    [props |-> [k \in DOMAIN style.props |-> getTransitionableProp(style.props[k])],
     hover |-> style.hover,
     active |-> style.active,
     animation |-> style.animation,
     own |-> {key \in style.own : style[key].defined}]

\* ObservableMap.deepEqual on two style objects and on two StyleStates:
\* same keys, same values; two wrapper objects are equal when their
\* transition and value are
sameValue(p, q) == p.transition = q.transition /\ p.value = q.value
deepEqualStyle(a, b) ==
    /\ DOMAIN a.props = DOMAIN b.props
    /\ a.own = b.own
    /\ \A k \in DOMAIN a.props : sameValue(a.props[k], b.props[k])
    /\ a.hover = b.hover
    /\ a.active = b.active
    /\ a.animation = b.animation
deepEqual(a, b) ==
    /\ deepEqualStyle(a.currentState, b.currentState)
    /\ deepEqualStyle(a.previousState, b.previousState)

\* faulty variant: 'add' is emitted for a key the map has, too
setEventAdd(styles, e, value) == "add"

\* the event ObservableMap.set(key, value) emits
setEvent(styles, e, value) ==
    IF e \notin DOMAIN styles THEN "add"
    ELSE IF ~deepEqual(styles[e], value) THEN "update"
    ELSE "none"

\* a !== b on two property values: primitives by value, wrapper objects by identity
notIdentical(p, q) ==
    IF p.transition = "none" /\ q.transition = "none" THEN p.value # q.value
    ELSE p.transition = "none" \/ q.transition = "none" \/ p.ref # q.ref

\* StyleManager.computeStyleUpdate: the top-level keys whose value is not the
\* one the old state holds, in the order of Object.entries
computeStyleUpdate(e, oldValue, newValue) ==
    SelectSeqBy(KeyOrder[e],
                {key \in Range(KeyOrder[e]) :
                    notIdentical(oldValue.currentState.props[key],
                                 newValue.currentState.props[key])})

(***************************************************************************)
(* Animations.  An Animation object is a record: what the constructor      *)
(* stored, plus what its onUpdate and onComplete closures are bound to     *)
(* (the entity and property, and for an animation declared in a style the  *)
(* props object that computeAnimationAdd built).                           *)
(***************************************************************************)
\* duration of the transition the editor requests on a style change
TransitionDuration == 150
\* duration of an animation whose options name none
DefaultDuration == 1000

\* an entry of an animation sub-record; duration -1, loop "omitted" and
\* loopMode "omitted" stand for a key left out
Animatable(from, to, duration, easing, loop, loopMode) ==
    [from |-> from, to |-> to, duration |-> duration, easing |-> easing, loop |-> loop,
     loopMode |-> loopMode]

\* x && y on unwrapped values: 0 is falsy, the strings of the model are not empty
Truthy(value) == ~(value.kind = "number" /\ value.v = RInt(0))

\* the options Editor.onTransitionableStyleChanged passes to requestAnimation
\* for one changed key
transitionOptions(e, oldValue, newValue, key) ==
    [from |-> getTransitionableProp(oldValue.currentState.props[key]).value,
     to |-> getTransitionableProp(newValue.currentState.props[key]).value,
     duration |-> TransitionDuration,
     easing |-> "linear",
     loop |-> FALSE,
     loopMode |-> "none",
     entity |-> e,
     prop |-> key,
     declared |-> FALSE,
     target |-> 0]

\* Editor.onTransitionableStyleChanged: the animations it requests, one for
\* each changed key whose old and new unwrapped values are both truthy
RECURSIVE onTransitionableStyleChanged(_, _, _, _)
onTransitionableStyleChanged(e, oldValue, newValue, keys) ==
    IF keys = <<>> THEN <<>>
    ELSE LET options == transitionOptions(e, oldValue, newValue, Head(keys))
         IN  (IF Truthy(options.to) /\ Truthy(options.from) THEN <<options>> ELSE <<>>)
                 \o onTransitionableStyleChanged(e, oldValue, newValue, Tail(keys))

\* options that loop unless loop is false
animationOptionsLooping(e, settings, key, target) ==
    [from |-> settings.from,
     to |-> settings.to,
     duration |-> IF settings.duration = -1 THEN DefaultDuration ELSE settings.duration,
     easing |-> settings.easing,
     loop |-> settings.loop # "false",
     loopMode |-> IF settings.loopMode = "omitted" THEN "none" ELSE settings.loopMode,
     entity |-> e,
     prop |-> key,
     declared |-> TRUE,
     target |-> target]

\* the options Editor.onAnimation passes to requestAnimation for one entry
\* of an animation sub-record; target names the props object its onComplete
\* writes to
animationOptions(e, settings, key, target) ==
    [from |-> settings.from,
     to |-> settings.to,
     duration |-> IF settings.duration = -1 THEN DefaultDuration ELSE settings.duration,
     easing |-> settings.easing,
     loop |-> IF settings.loop = "omitted" THEN FALSE ELSE settings.loop = "true",
     loopMode |-> IF settings.loopMode = "omitted" THEN "none" ELSE settings.loopMode,
     entity |-> e,
     prop |-> key,
     declared |-> TRUE,
     target |-> target]

\* Editor.onAnimation: one request for each entry of the animation
\* sub-record of the props object, if it has one
RECURSIVE animationRequests(_, _, _, _)
animationRequests(e, animation, keys, target) ==
    IF keys = <<>> THEN <<>>
    ELSE <<animationOptions(e, animation.props[Head(keys)], Head(keys), target)>>
             \o animationRequests(e, animation, Tail(keys), target)
onAnimation(e, state, target) ==
    IF ~state.currentState.animation.defined THEN <<>>
    ELSE animationRequests(e, state.currentState.animation,
                           SelectSeqBy(KeyOrder[e],
                                       DOMAIN state.currentState.animation.props),
                           target)

\* the Animation constructor finds an interpolator: two numbers or two colours
hasInterpolator(options) ==
    \/ options.from.kind = "number" /\ options.to.kind = "number"
    \/ options.from.kind = "color" /\ options.to.kind = "color"

\* new Animation(options), constructed at time t as the id-th Animation
newAnimation(options, id, t) ==
    [id |-> id, from |-> options.from, to |-> options.to, duration |-> options.duration,
     easing |-> options.easing, loop |-> options.loop, loopMode |-> options.loopMode, startTime |-> t,
     entity |-> options.entity, prop |-> options.prop, declared |-> options.declared,
     target |-> options.target]

\* faulty variant: every request arms a callback of the loop
RECURSIVE requestAnimationsAlwaysArms(_, _, _)
requestAnimationsAlwaysArms(s, requests, t) ==
    IF requests = <<>> THEN s
    ELSE IF ~hasInterpolator(Head(requests)) THEN [s EXCEPT !.raised = TRUE]
    ELSE requestAnimationsAlwaysArms(
            [animations |-> s.animations
                                \cup {newAnimation(Head(requests), s.nextAnimation, t)},
             isRunning |-> TRUE,
             rafQueue |-> Append(s.rafQueue, "loop"),
             nextAnimation |-> s.nextAnimation + 1,
             raised |-> FALSE],
            Tail(requests), t)

\* faulty variant: the loop is armed before the Animation is constructed
RECURSIVE requestAnimationsArmsFirst(_, _, _)
requestAnimationsArmsFirst(s, requests, t) ==
    IF requests = <<>> THEN s
    ELSE IF ~hasInterpolator(Head(requests))
    THEN [s EXCEPT !.raised = TRUE,
                   !.isRunning = TRUE,
                   !.rafQueue = IF s.isRunning THEN s.rafQueue ELSE Append(s.rafQueue, "loop")]
    ELSE requestAnimationsArmsFirst(
            [animations |-> s.animations
                                \cup {newAnimation(Head(requests), s.nextAnimation, t)},
             isRunning |-> TRUE,
             rafQueue |-> IF s.isRunning THEN s.rafQueue ELSE Append(s.rafQueue, "loop"),
             nextAnimation |-> s.nextAnimation + 1,
             raised |-> FALSE],
            Tail(requests), t)

\* the scheduler after AnimationManager.requestAnimation was called with each
\* of the options in turn, until a constructor throws; s is [animations,
\* isRunning, rafQueue, nextAnimation, raised]
RECURSIVE requestAnimations(_, _, _)
requestAnimations(s, requests, t) ==
    IF requests = <<>> THEN s
    ELSE IF ~hasInterpolator(Head(requests)) THEN [s EXCEPT !.raised = TRUE]
    ELSE requestAnimations(
            [animations |-> s.animations
                                \cup {newAnimation(Head(requests), s.nextAnimation, t)},
             isRunning |-> TRUE,
             rafQueue |-> IF s.isRunning THEN s.rafQueue ELSE Append(s.rafQueue, "loop"),
             nextAnimation |-> s.nextAnimation + 1,
             raised |-> FALSE],
            Tail(requests), t)

(***************************************************************************)
(* The calls of the style engine.  Each is one synchronous call: the       *)
(* listeners of the style map run inside it, and a frame is never under    *)
(* way when it starts.                                                     *)
(***************************************************************************)
\* one more call of a behaviour of the style or animation engine
Call ==
    /\ steps < MaxCalls
    /\ steps' = steps + 1
    /\ frameQueue = <<>>
    /\ UNCHANGED editorVars

\* the wrapper objects of a style literal are new objects of the call
Fresh(style, ref) ==
    [style EXCEPT !.props = [k \in DOMAIN style.props |->
                                IF style.props[k].transition = "none" THEN style.props[k]
                                ELSE [style.props[k] EXCEPT !.ref = ref]]]

\* what a style call did: whether it reached ObservableMap.set and the event
\* that emitted ("none" when it emitted none), the style handed to set, how
\* often the editor's style-change callback ran, the Animation objects
\* constructed, whether the call ended in an exception, and the style map
\* as the call found it
CallRecord(op, e, style, stored, event, callbacks, requested, raised) ==
    [op |-> op, entity |-> e, style |-> style, stored |-> stored,
     event |-> event, callbacks |-> callbacks, requested |-> requested, raised |-> raised,
     before |-> registry]

\* a call that stores nothing
NoEffect(op, e) ==
    /\ call' = CallRecord(op, e, EmptyStyle, FALSE, "none", 0, {}, FALSE)
    /\ callBefore' = call
    /\ UNCHANGED <<registry, animations, isRunning, rafQueue, nextAnimation, addedProps>>

\* StyleManager.setNodeStyle / setPortStyle / setConnectionStyle with the
\* listeners the Editor constructor registered: computeAnimationAdd and
\* onAnimation on 'add', computeStyleUpdate and onTransitionableStyleChanged
\* on 'update'
setStyle(op, e, style) ==
    LET value == setEntityStyle(managerDefaults, registry, e, style)
        event == setEvent(registry, e, value)
        requests ==
            IF event = "add" THEN onAnimation(e, value, steps + 1)
            ELSE IF event = "update"
            THEN onTransitionableStyleChanged(e, registry[e], value,
                                              computeStyleUpdate(e, registry[e], value))
            ELSE <<>>
        s == requestAnimations([animations |-> animations, isRunning |-> isRunning,
                                rafQueue |-> rafQueue, nextAnimation |-> nextAnimation,
                                raised |-> FALSE],
                               requests, now)
    IN  /\ registry' = (e :> value) @@ registry
        /\ animations' = s.animations
        /\ isRunning' = s.isRunning
        /\ rafQueue' = s.rafQueue
        /\ nextAnimation' = s.nextAnimation
        /\ addedProps' = IF event = "add"
                         THEN (steps + 1 :> [entity |-> e, props |-> value.currentState.props])
                                  @@ addedProps
                         ELSE addedProps
        /\ call' = CallRecord(op, e, style, TRUE, event, IF event = "update" THEN 1 ELSE 0,
                              {a.id : a \in s.animations \ animations}, s.raised)
        /\ callBefore' = call

\* entity.setStyle(style), and the setNodeStyle, setPortStyle and
\* setConnectionStyle calls of the constructors, of addNode and of connectPorts
SetStyle(e, style) ==
    /\ Call
    /\ setStyle("setStyle", e, Fresh(style, steps + 1))
    /\ UNCHANGED <<managerDefaults, activeAnimations, completed, frameQueue, frameTime, now>>

\* a hover sub-record, read as the partial style handleHover passes to setStyle
hoverStyle(hover) ==
    Partial([k \in DOMAIN hover.props |-> Plain(hover.props[k])], Undefined, Undefined)

\* the style handleHover applies when the pointer leaves, and for a node or
\* a connection also when it enters and there is no hover sub-record
hoverOutStyleCurrent(state) == getTransitionableProps(state.currentState)
hoverOutStyle(state) == getTransitionableProps(state.previousState)

\* Node.handleHover, Connection.handleHover and Port.handleHover
HandleHover(e, isHovered) ==
    /\ Call
    /\ LET op == IF isHovered THEN "hoverIn" ELSE "hoverOut"
       IN  IF e \notin DOMAIN registry THEN NoEffect(op, e)
           ELSE LET computedCurrentStyle == getTransitionableProps(registry[e].currentState)
                    computedPreviousStyle == hoverOutStyle(registry[e])
                IN  IF isHovered /\ computedCurrentStyle.hover.defined
                    THEN setStyle(op, e, hoverStyle(computedCurrentStyle.hover))
                    ELSE IF isHovered /\ e = "port" THEN NoEffect(op, e)
                    ELSE setStyle(op, e, computedPreviousStyle)
    /\ UNCHANGED <<managerDefaults, activeAnimations, completed, frameQueue, frameTime, now>>

\* faulty variant: the animations of the node are cancelled with its style
DeleteNodeStyleCancels ==
    /\ Call
    /\ "node" \in DOMAIN registry
    /\ registry' = [e \in DOMAIN registry \ {"node"} |-> registry[e]]
    /\ animations' = {a \in animations : a.entity # "node"}
    /\ call' = CallRecord("deleteNodeStyle", "node", EmptyStyle, FALSE, "delete", 0, {}, FALSE)
    /\ callBefore' = call
    /\ UNCHANGED <<managerDefaults, activeAnimations, isRunning, addedProps, nextAnimation,
                   completed, frameVars>>

\* StyleManager.deleteNodeStyle, as removeNode calls it
DeleteNodeStyle ==
    /\ Call
    /\ "node" \in DOMAIN registry
    /\ registry' = [e \in DOMAIN registry \ {"node"} |-> registry[e]]
    /\ call' = CallRecord("deleteNodeStyle", "node", EmptyStyle, FALSE, "delete", 0, {}, FALSE)
    /\ callBefore' = call
    /\ UNCHANGED <<managerDefaults, schedulerVars, frameVars>>

\* StyleManager.setDefaultStyles(styles): each kind is the built-in default
\* overlaid by the given one
setDefaultStyles(styles) ==
    [kind \in Entities |->
        initialState(defaultStyles, kind,
                     IF kind \in DOMAIN styles THEN styles[kind] ELSE EmptyStyle)]

SetDefaultStyles(styles) ==
    /\ Call
    /\ managerDefaults' =
           setDefaultStyles([kind \in DOMAIN styles |-> Fresh(styles[kind], steps + 1)])
    /\ call' = CallRecord("setDefaultStyles", "node", EmptyStyle, FALSE, "none", 0, {}, FALSE)
    /\ callBefore' = call
    /\ UNCHANGED <<registry, schedulerVars, frameVars>>

(***************************************************************************)
(* Animation.update.  The progress t of an animation is a JavaScript       *)
(* number: a rational, NaN or an infinity.                                 *)
(***************************************************************************)
Finite(r) == [kind |-> "finite", r |-> r]
NaN == [kind |-> "NaN", r |-> <<0, 0>>]
PlusInfinity == [kind |-> "Infinity", r |-> <<0, 0>>]
MinusInfinity == [kind |-> "-Infinity", r |-> <<0, 0>>]

\* x / y on integers
Quotient(x, y) ==
    IF y # 0 THEN Finite(Rat(x, y))
    ELSE IF x > 0 THEN PlusInfinity
    ELSE IF x < 0 THEN MinusInfinity
    ELSE NaN

\* x % y on integers: the sign of x, NaN when y is 0
Remainder(x, y) == IF x >= 0 THEN x % y ELSE 0 - ((0 - x) % y)

\* Math.min(t, 1)
MinOne(t) ==
    IF t.kind = "finite" THEN Finite(RMin(t.r, RInt(1)))
    ELSE IF t.kind = "Infinity" THEN Finite(RInt(1))
    ELSE t

\* t >= 1
AtLeastOne(t) ==
    \/ t.kind = "finite" /\ RLe(RInt(1), t.r)
    \/ t.kind = "Infinity"

\* the easing functions of easingFunctions.ts
Easing(easing, t) ==
    IF t.kind = "NaN" THEN NaN
    ELSE IF easing = "ease-in"
    THEN IF t.kind = "finite" THEN Finite(RMul(t.r, t.r)) ELSE PlusInfinity
    ELSE IF easing = "ease-out"
    THEN IF t.kind = "finite"
         THEN Finite(RSub(RInt(1), RMul(RSub(RInt(1), t.r), RSub(RInt(1), t.r))))
         ELSE MinusInfinity
    ELSE IF easing = "ease-in-out"
    THEN IF t.kind = "finite"
         THEN IF ~RLe(Rat(1, 2), t.r)
              THEN Finite(RMul(RInt(2), RMul(t.r, t.r)))
              ELSE LET u == RAdd(RMul(RInt(-2), t.r), RInt(2))
                   IN  Finite(RSub(RInt(1), RDiv(RMul(u, u), RInt(2))))
         ELSE IF t.kind = "-Infinity" THEN PlusInfinity ELSE MinusInfinity
    ELSE t

\* a value that is no number and no colour: NaN, an infinity, 'rgb(NaN, ...)'
NotANumber == [kind |-> "NaN", v |-> <<0, 0>>]
Infinite(positive) == [kind |-> IF positive THEN "Infinity" ELSE "-Infinity", v |-> <<0, 0>>]

\* numberInterpolator: start + (end - start) * t
numberInterpolator(start, end, t) ==
    LET diff == RSub(end, start)
    IN  IF t.kind = "finite" THEN [kind |-> "number", v |-> RAdd(start, RMul(diff, t.r))]
        ELSE IF t.kind = "NaN" \/ diff = RInt(0) THEN NotANumber
        ELSE Infinite((t.kind = "Infinity") = RLe(RInt(0), diff))

\* Math.round on a rational
Round(r) == (2 * r[1] + r[2]) \div (2 * r[2])

\* colorInterpolator on two opaque '#RRGGBB' colours: each channel rounded
channel(rgb, c) == (rgb \div c) % 256
colorInterpolator(start, end, t) ==
    LET mix(c) == Round(RAdd(RInt(channel(start[1], c)),
                             RMul(RInt(channel(end[1], c) - channel(start[1], c)), t.r)))
    IN  IF t.kind = "finite"
        THEN [kind |-> "color", v |-> RInt(65536 * mix(65536) + 256 * mix(256) + mix(1))]
        ELSE NotANumber

\* this.interpolator(this.from, this.to, easedT)
interpolate(a, easedT) ==
    IF a.from.kind = "number" THEN numberInterpolator(a.from.v, a.to.v, easedT)
    ELSE colorInterpolator(a.from.v, a.to.v, easedT)

\* faulty variant: a ping-pong loop starts over instead of turning back
progressStartsOver(a, currentTime) ==
    LET elapsed == currentTime - a.startTime
    IN  IF ~a.loop THEN MinOne(Quotient(elapsed, a.duration))
        ELSE IF a.loopMode \in {"ping-pong", "wrap-around"}
        THEN IF a.duration = 0 THEN NaN
             ELSE Finite(Rat(Remainder(elapsed, a.duration), a.duration))
        ELSE MinOne(Quotient(elapsed, a.duration))

\* the progress Animation.update computes at currentTime, before easing:
\* updateOnce, updateSnapLoop, updatePingPong or updateWrapAround
progress(a, currentTime) ==
    LET elapsed == currentTime - a.startTime
    IN  IF ~a.loop THEN MinOne(Quotient(elapsed, a.duration))
        ELSE IF a.loopMode = "ping-pong"
        THEN IF a.duration = 0 THEN NaN
             ELSE LET rawCycle == Rat(Remainder(elapsed, 2 * a.duration), a.duration)
                  IN  IF ~RLe(rawCycle, RInt(1)) THEN Finite(RSub(RInt(2), rawCycle))
                      ELSE Finite(rawCycle)
        ELSE IF a.loopMode = "wrap-around"
        THEN IF a.duration = 0 THEN NaN
             ELSE Finite(Rat(Remainder(elapsed, a.duration), a.duration))
        ELSE MinOne(Quotient(elapsed, a.duration))

\* the value Animation.update passes to onUpdate at currentTime
updateValue(a, currentTime) ==
    CHOOSE value \in {interpolate(a, easedT) :
                         easedT \in {Easing(a.easing, t) : t \in {progress(a, currentTime)}}} : TRUE

\* an update that never reports a finished run
updateDoneNever(a, currentTime) == FALSE

\* Animation.update returns true: a single run has reached t === 1
updateDone(a, currentTime) == ~a.loop /\ progress(a, currentTime) = Finite(RInt(1))

\* the Animation object after update: a snap loop that reached the end of
\* a cycle starts over at performance.now()
updated(a, currentTime, t) ==
    IF a.loop /\ a.loopMode \notin {"ping-pong", "wrap-around"}
          /\ AtLeastOne(Quotient(currentTime - a.startTime, a.duration))
    THEN [a EXCEPT !.startTime = t]
    ELSE a

\* the onUpdate closure of onAnimation stores the value in activeAnimations;
\* the one of onTransitionableStyleChanged only renders
onUpdate(overrides, a, value) ==
    IF ~a.declared THEN overrides
    ELSE (a.entity :> ((a.prop :> value) @@
                       (IF a.entity \in DOMAIN overrides THEN overrides[a.entity] ELSE <<>>)))
             @@ overrides

\* the onComplete closure of onAnimation writes the final value to the props
\* object it closed over; the one of onTransitionableStyleChanged only logs
onComplete(added, a, value) ==
    IF ~a.declared THEN added
    ELSE [added EXCEPT ![a.target].props = (a.prop :> Plain(value)) @@ @]

\* the style draw paints entity e with: {...base, ...override}, base the
\* resolved currentState and override the entry of activeAnimations
drawStyle(styles, overrides, e) ==
    LET base == getTransitionableProps(styles[e].currentState).props
        override == IF e \in DOMAIN overrides THEN overrides[e] ELSE <<>>
    IN  [k \in DOMAIN base \cup DOMAIN override |->
            IF k \in DOMAIN override THEN override[k] ELSE base[k].value]

\* one Animation object a of the scheduler m = [animations, activeAnimations,
\* addedProps, completed] updated by AnimationManager.update: its callbacks
\* run, and it is deleted when update returned true
updateOne(m, a, currentTime, t) ==
    LET value == updateValue(a, currentTime)
        done == updateDone(a, currentTime)
    IN  [animations |-> (m.animations \ {a})
                            \cup (IF done THEN {} ELSE {updated(a, currentTime, t)}),
         activeAnimations |-> onUpdate(m.activeAnimations, a, value),
         addedProps |-> IF done THEN onComplete(m.addedProps, a, value)
                        ELSE m.addedProps,
         completed |-> IF done
                       THEN Append(m.completed,
                                   [id |-> a.id, value |-> value, time |-> currentTime])
                       ELSE m.completed]

\* AnimationManager.update(currentTime): the Animation objects are visited in
\* the order they were added
RECURSIVE updateFrom(_, _, _, _)
updateFrom(m, id, currentTime, t) ==
    IF id >= nextAnimation THEN m
    ELSE CHOOSE result \in
             {updateFrom(IF \E a \in s.animations : a.id = id
                         THEN CHOOSE r \in {updateOne(s, a, currentTime, t) :
                                               a \in {x \in s.animations : x.id = id}} : TRUE
                         ELSE s,
                         id + 1, currentTime, t) : s \in {m}} : TRUE

update(currentTime) ==
    updateFrom([animations |-> animations, activeAnimations |-> activeAnimations,
                addedProps |-> addedProps, completed |-> completed],
               1, currentTime, now)

(***************************************************************************)
(* Frames.  The browser runs the callbacks registered with                 *)
(* requestAnimationFrame one after the other, all with the timestamp of    *)
(* the frame; callbacks registered meanwhile wait for the next frame.      *)
(***************************************************************************)
\* time passes
Advance ==
    /\ now < MaxTicks * TimeUnit
    /\ now' = now + TimeUnit
    /\ UNCHANGED <<editorVars, steps, styleVars, schedulerVars, rafQueue, frameQueue,
                   frameTime>>

\* a frame starts: its timestamp is later than the last one's and not in the future
BeginFrame(timestamp) ==
    /\ frameQueue = <<>>
    /\ rafQueue # <<>>
    /\ frameTime < timestamp
    /\ timestamp <= now
    /\ frameTime' = timestamp
    /\ frameQueue' = rafQueue
    /\ rafQueue' = <<>>
    /\ UNCHANGED <<editorVars, steps, styleVars, schedulerVars, now>>

\* Editor.frameLoop(currentTime)
FrameLoop ==
    /\ frameQueue # <<>>
    /\ Head(frameQueue) = "frameLoop"
    /\ \E m \in {update(frameTime)} :
           /\ animations' = m.animations
           /\ activeAnimations' = m.activeAnimations
           /\ addedProps' = m.addedProps
           /\ completed' = m.completed
    /\ frameQueue' = Tail(frameQueue)
    /\ rafQueue' = Append(rafQueue, "frameLoop")
    /\ UNCHANGED <<editorVars, steps, styleVars, isRunning, nextAnimation, frameTime, now>>

\* faulty variant: the loop stops without clearing isRunning
LoopStaysRunning ==
    /\ frameQueue # <<>>
    /\ Head(frameQueue) = "loop"
    /\ \E m \in {update(frameTime)} :
           /\ animations' = m.animations
           /\ activeAnimations' = m.activeAnimations
           /\ addedProps' = m.addedProps
           /\ completed' = m.completed
           /\ IF m.animations # {}
              THEN rafQueue' = Append(rafQueue, "loop")
              ELSE UNCHANGED rafQueue
    /\ frameQueue' = Tail(frameQueue)
    /\ UNCHANGED <<editorVars, steps, styleVars, isRunning, nextAnimation, frameTime, now>>

\* AnimationManager.loop(time)
Loop ==
    /\ frameQueue # <<>>
    /\ Head(frameQueue) = "loop"
    /\ \E m \in {update(frameTime)} :
           /\ animations' = m.animations
           /\ activeAnimations' = m.activeAnimations
           /\ addedProps' = m.addedProps
           /\ completed' = m.completed
           /\ IF m.animations # {}
              THEN rafQueue' = Append(rafQueue, "loop") /\ UNCHANGED isRunning
              ELSE isRunning' = FALSE /\ UNCHANGED rafQueue
    /\ frameQueue' = Tail(frameQueue)
    /\ UNCHANGED <<editorVars, steps, styleVars, nextAnimation, frameTime, now>>

(***************************************************************************)
(* The editor after construction: an empty scene, the built-in default     *)
(* styles, no animation, and the first frameLoop callback requested.       *)
(***************************************************************************)
Init ==
    /\ nodeObjs = <<>>
    /\ nodes = <<>>
    /\ connections = <<>>
    /\ scale = RInt(1)
    /\ offsetX = RInt(0)
    /\ offsetY = RInt(0)
    /\ pendingConnectionPort = NoComponent
    /\ mousePosition = NoPosition
    /\ hoveredComponent = NoComponent
    /\ hoverFlags = {}
    /\ hoverLog = <<>>
    /\ nodeStyles = <<>>
    /\ isDraggingNode = FALSE
    /\ dragNode = 0
    /\ dragOffsetX = RInt(0)
    /\ dragOffsetY = RInt(0)
    /\ grab = [point |-> <<0, 0>>, position |-> NoPosition]
    /\ isPanning = FALSE
    /\ panStartX = 0
    /\ panStartY = 0
    /\ panOffsetStartX = RInt(0)
    /\ panOffsetStartY = RInt(0)
    /\ menuOpen = FALSE
    /\ menuReopen = FALSE
    /\ steps = 0
    /\ last = Last("new", "ok")
    /\ managerDefaults = defaultStyles
    /\ registry = <<>>
    /\ call = CallRecord("new", "node", EmptyStyle, FALSE, "none", 0, {}, FALSE)
    /\ callBefore = CallRecord("new", "node", EmptyStyle, FALSE, "none", 0, {}, FALSE)
    /\ animations = {}
    /\ activeAnimations = <<>>
    /\ isRunning = FALSE
    /\ addedProps = <<>>
    /\ rafQueue = <<"frameLoop">>
    /\ frameQueue = <<>>
    /\ frameTime = 0
    /\ now = 0
    /\ nextAnimation = 1
    /\ completed = <<>>

Next ==
    \/ \E position \in NodePositions, portParams \in PortParams, style \in StyleParams :
          AddNode(position, portParams, style)
    \/ \E n \in 1..MaxNodes : RemoveNode(n)
    \/ \E portA \in AllPorts, portB \in AllPorts : ConnectPorts(portA, portB)
    \/ \E i \in 1..Len(connections) : Disconnect(i)
    \/ Clear
    \/ \E button \in Buttons, p \in ScreenPoints : MouseDown(button, p)
    \/ \E p \in ScreenPoints : MouseMove(p)
    \/ MouseUp
    \/ \E p \in WheelPoints, zoomIn \in BOOLEAN : Wheel(p, zoomIn)
    \/ MenuReopenFrame

Spec == Init /\ [][Next]_vars

(***************************************************************************)
(* The scene under the pointer: nodes with and without a style of their    *)
(* own are added, dragged and removed while the view is panned and zoomed. *)
(***************************************************************************)
\* params.style of addNode: absent, or a node wider and higher than the default
HitStyleParams == {NoStyleParam, [width |-> RInt(200), height |-> RInt(80)]}

\* addNode with no style, a full one, {width: 200} and {height: 100}
PartialStyleParams ==
    {NoStyleParam,
     [width |-> RInt(200), height |-> RInt(80)],
     [width |-> RInt(200), height |-> NoNumber],
     [width |-> NoNumber, height |-> RInt(100)]}

\* ports asked for inside the node, below it and above it
ClampPortParams ==
    {<<[type |-> "input", position |-> Pos(RInt(0), RInt(25))],
       [type |-> "output", position |-> Pos(RInt(0), RInt(25))]>>,
     <<[type |-> "input", position |-> Pos(RInt(0), RInt(150))],
       [type |-> "output", position |-> Pos(RInt(0), RInt(-10))]>>,
     <<[type |-> "output", position |-> Pos(RInt(30), RInt(90))]>>}

PortNext ==
    \/ \E position \in NodePositions, portParams \in ClampPortParams,
          style \in PartialStyleParams : AddNode(position, portParams, style)
    \/ \E n \in 1..MaxNodes : RemoveNode(n)

PortSpec == Init /\ [][PortNext]_vars

HitNext ==
    \/ \E position \in NodePositions, portParams \in PortParams, style \in HitStyleParams :
          steps < MaxHitSteps /\ AddNode(position, portParams, style)
    \/ \E n \in 1..MaxNodes : steps < MaxHitSteps /\ RemoveNode(n)
    \/ \E button \in Buttons, p \in ScreenPoints : steps < MaxHitSteps /\ MouseDown(button, p)
    \/ \E p \in ScreenPoints : steps < MaxHitSteps /\ MouseMove(p)
    \/ steps < MaxHitSteps /\ MouseUp
    \/ \E p \in WheelPoints, zoomIn \in BOOLEAN : steps < MaxHitSteps /\ Wheel(p, zoomIn)

HitSpec == Init /\ [][HitNext]_vars

(***************************************************************************)
(* The view alone: the empty canvas is panned, and zoomed at any of the     *)
(* pointer positions.                                                      *)
(***************************************************************************)
ViewNext ==
    \/ \E button \in Buttons, p \in ScreenPoints : MouseDown(button, p)
    \/ \E p \in ScreenPoints : MouseMove(p)
    \/ MouseUp
    \/ \E p \in ScreenPoints, zoomIn \in BOOLEAN : Wheel(p, zoomIn)

ViewSpec == Init /\ [][ViewNext]_vars

(***************************************************************************)
(* The style engine on its own: the styles callers pass, and the calls in  *)
(* any order.  No frame runs, so the animations requested stay live.       *)
(***************************************************************************)
\* {width: 130}, {borderColor: {transition: true, value: '#FF0000'}},
\* {labelFont: 'bold 12px serif'}, {hover: {fill: '#53536E'}}, {} for a node;
\* {fill: '#101010'}, {radius: 0} for a port; {color: '#FF0000'},
\* {hover: {color: '#FFFFFF'}} for a connection
StyleUpdates ==
    [node |-> {Partial([width |-> Plain(Num(130))], Undefined, Undefined),
               Partial([borderColor |-> Wrapper(TRUE, Colour(16711680), 0)],
                       Undefined, Undefined),
               Partial([labelFont |-> Plain(Text(2))], Undefined, Undefined),
               Partial(EmptyRecord, SubRecord([fill |-> Colour(5460846)]), Undefined),
               EmptyStyle},
     port |-> {Partial([fill |-> Plain(Colour(1052688))], Undefined, Undefined),
               Partial([radius |-> Plain(Num(0))], Undefined, Undefined)},
     connection |-> {Partial([color |-> Plain(Colour(16711680))], Undefined, Undefined),
                     Partial(EmptyRecord, SubRecord([color |-> Colour(16777215)]),
                             Undefined)}]

\* setDefaultStyles({node: {width: 200}}) and setDefaultStyles({port: {radius: 10}})
DefaultStyleParams ==
    {[node |-> Partial([width |-> Plain(Num(200))], Undefined, Undefined)],
     [port |-> Partial([radius |-> Plain(Num(10))], Undefined, Undefined)]}

StyleNext ==
    \/ \E e \in Entities : \E style \in StyleUpdates[e] : SetStyle(e, style)
    \/ \E e \in Entities, isHovered \in BOOLEAN : HandleHover(e, isHovered)
    \/ DeleteNodeStyle
    \/ \E styles \in DefaultStyleParams : SetDefaultStyles(styles)

StyleSpec == Init /\ [][StyleNext]_vars

\* a partial style with an active sub-record
WithActive(props, active) ==
    [props |-> props, hover |-> Undefined, active |-> active, animation |-> Undefined,
     own |-> {"active"}]

\* updates that name top-level properties, sub-records with keys the entity
\* has and keys it lacks, both, and nothing
MergeUpdates ==
    [node |-> {Partial([width |-> Plain(Num(130))],
                       SubRecord([fill |-> Colour(5460846)]), Undefined),
               Partial(EmptyRecord, SubRecord([borderColor |-> Colour(16711680)]), Undefined),
               WithActive(EmptyRecord, SubRecord([fill |-> Colour(5460846)])),
               WithActive([fill |-> Wrapper(FALSE, Colour(1052688), 0)],
                          SubRecord([borderColor |-> Colour(16711680)])),
               Partial(EmptyRecord, Undefined,
                       SubRecord([width |-> Animatable(Num(100), Num(200), TimeUnit, "linear",
                                                       "true", "ping-pong")])),
               Partial(EmptyRecord, Undefined,
                       SubRecord([fill |-> Animatable(Colour(0), Colour(255), TimeUnit,
                                                      "linear", "true", "ping-pong")])),
               EmptyStyle},
     port |-> {Partial([radius |-> Plain(Num(10))], Undefined, Undefined),
               Partial(EmptyRecord, SubRecord([radius |-> Num(12)]), Undefined),
               Partial(EmptyRecord, SubRecord([fill |-> Colour(16777215)]), Undefined),
               WithActive(EmptyRecord, SubRecord([fill |-> Colour(1052688)]))},
     connection |-> {Partial([color |-> Plain(Colour(16711680))],
                             SubRecord([color |-> Colour(16777215)]), Undefined),
                     Partial(EmptyRecord, SubRecord([width |-> Num(5)]), Undefined)}]

MergeNext == \E e \in Entities : \E style \in MergeUpdates[e] : SetStyle(e, style)

MergeSpec == Init /\ [][MergeNext]_vars

(***************************************************************************)
(* The animation engine: a node whose styles declare animations or change  *)
(* a property, time passing, and the frames of the browser.                *)
(***************************************************************************)
\* {animation: {width: {from: 100, to: 200, duration, easing: 'linear', ...}}}
animatedWidth(duration, loop, loopMode) ==
    Partial(EmptyRecord, Undefined,
            SubRecord([width |-> Animatable(Num(100), Num(200), duration, "linear",
                                            loop, loopMode)]))

\* a single run by omission and by loop: false, the three loop modes,
\* a duration of 0, and the plain update {width: 130}
AnimatedStyles ==
    {animatedWidth(2 * TimeUnit, "omitted", "omitted"),
     animatedWidth(2 * TimeUnit, "false", "omitted"),
     animatedWidth(2 * TimeUnit, "true", "omitted"),
     animatedWidth(2 * TimeUnit, "true", "ping-pong"),
     animatedWidth(2 * TimeUnit, "true", "wrap-around"),
     animatedWidth(0, "omitted", "omitted"),
     Partial([width |-> Plain(Num(130))], Undefined, Undefined)}

Timestamps == {k * TimeUnit : k \in 1..MaxTicks}

AnimNext ==
    \/ \E style \in AnimatedStyles : steps < MaxAnimCalls /\ SetStyle("node", style)
    \/ steps < MaxAnimCalls /\ DeleteNodeStyle
    \/ Advance
    \/ \E timestamp \in Timestamps : BeginFrame(timestamp)
    \/ FrameLoop
    \/ Loop

AnimSpec == Init /\ [][AnimNext]_vars

\* a style call made between two callbacks of a frame, as a microtask makes it
SetStyleInFrame(e, style) ==
    /\ steps < MaxAnimCalls
    /\ steps' = steps + 1
    /\ frameQueue # <<>>
    /\ setStyle("setStyleInFrame", e, Fresh(style, steps + 1))
    /\ UNCHANGED <<editorVars, managerDefaults, activeAnimations, completed, frameQueue,
                   frameTime, now>>

\* the scheduler with requests at any point between its callbacks
InterleavedNext ==
    \/ AnimNext
    \/ \E style \in AnimatedStyles : SetStyleInFrame("node", style)

InterleavedSpec == Init /\ [][InterleavedNext]_vars

\* the browser keeps going: as long as the explored time lasts, time passes,
\* frames start and their callbacks are called
Browser ==
    \/ Advance
    \/ \E timestamp \in Timestamps : BeginFrame(timestamp)
    \/ FrameLoop
    \/ Loop

\* a declared single run, the looping modes, and a plain width whose change
\* starts a single run as well
LoopStyles ==
    {animatedWidth(2 * TimeUnit, "omitted", "omitted"),
     animatedWidth(2 * TimeUnit, "true", "omitted"),
     animatedWidth(2 * TimeUnit, "true", "ping-pong"),
     animatedWidth(2 * TimeUnit, "true", "wrap-around"),
     Partial([width |-> Plain(Num(130))], Undefined, Undefined)}

FairAnimNext ==
    \/ \E style \in LoopStyles : steps < MaxAnimCalls /\ SetStyle("node", style)
    \/ Browser

FairAnimSpec == Init /\ [][FairAnimNext]_vars /\ WF_vars(Browser)

(***************************************************************************)
(* Ping-pong loops of one and of two time units, ticked by the frames.     *)
(***************************************************************************)
PingPongStyles ==
    {animatedWidth(TimeUnit, "true", "ping-pong"),
     animatedWidth(2 * TimeUnit, "true", "ping-pong")}

PingPongNext ==
    \/ \E style \in PingPongStyles : steps < MaxAnimCalls /\ SetStyle("node", style)
    \/ Browser

PingPongSpec == Init /\ [][PingPongNext]_vars



(***************************************************************************)
(* Properties of the connect rule.                                         *)
(***************************************************************************)
\* the ports a and b have the same type
SameType(a, b) == PortOf(a).type = PortOf(b).type
\* the ports a and b belong to one node
SameNode(a, b) == a.node = b.node
\* a connection of `list` joins the unordered pair {a, b}
Joined(list, a, b) ==
    \E i \in 1..Len(list) : {list[i].sourcePort, list[i].targetPort} = {a, b}
\* an attempt the connect rule must reject
Illegal(list, a, b) == SameType(a, b) \/ SameNode(a, b) \/ Joined(list, a, b)
\* the step is the host's call connectPorts(a, b)
IsConnectCall(a, b) == last'.op = "connectPorts" /\ ConnectPorts(a, b)

\* C1: whatever sequence of addNode, connectPorts (in either argument order),
\* two-click connects, disconnect, removeNode and clear has run, every
\* connection of the list goes from an output port to an input port.
C1_Orientation ==
    \A i \in 1..Len(connections) :
        /\ PortOf(connections[i].sourcePort).type = "output"
        /\ PortOf(connections[i].targetPort).type = "input"

\* C1 witness: the list holds two connections, the later one made by a
\* two-click gesture.
C1_Witness == Len(connections) = 2 /\ last = Last("mouseDown", "connected")

\* C2: connectPorts(a, b) leaves the connection list as it is when a and b
\* have the same type, or belong to one node, or are joined already in either
\* order; so no state holds two connections over one unordered pair of ports,
\* or a connection between two ports of one node.
C2_RejectsIllegal ==
    /\ \A a \in AllPorts, b \in AllPorts :
          Illegal(connections, a, b) => connectPorts(connections, a, b) = connections
    /\ \A i \in 1..Len(connections), j \in 1..Len(connections) :
          i # j => {connections[i].sourcePort, connections[i].targetPort}
                     # {connections[j].sourcePort, connections[j].targetPort}
    /\ \A i \in 1..Len(connections) :
          ~SameNode(connections[i].sourcePort, connections[i].targetPort)

\* C2 witness: connectPorts has just been called on a pair that the one
\* connection of the list joins already.
C2_Witness == Len(connections) = 1 /\ last = Last("connectPorts", "already connected")

\* C3 as stated: every illegal attempt (same type, same node, duplicate pair)
\* returns normally, without an error.
C3_NeverRaises ==
    [][\A a \in AllPorts, b \in AllPorts :
          IsConnectCall(a, b) /\ Illegal(connections, a, b)
              => last'.result # SameTypeError]_vars

\* C3 amended: an illegal attempt never changes the connection list; it
\* returns normally when the ports differ in type (same node, duplicate pair)
\* and raises an error exactly when they have the same type.
C3_SilentUnlessSameType ==
    [][\A a \in AllPorts, b \in AllPorts :
          IsConnectCall(a, b) /\ Illegal(connections, a, b)
              => /\ connections' = connections
                 /\ (last'.result = SameTypeError <=> SameType(a, b))]_vars

\* C3 witness: connectPorts has just returned from a same-node attempt, the
\* list untouched.
C3_Witness == last = Last("connectPorts", "same node") /\ Len(connections) = 1

\* C4: connectPorts(a, b) with a.type = b.type raises an error and leaves the
\* connection list unchanged.
C4_SameTypeRaises ==
    [][\A a \in AllPorts, b \in AllPorts :
          IsConnectCall(a, b) /\ SameType(a, b)
              => last'.result = SameTypeError /\ connections' = connections]_vars

\* C4 witness: connectPorts has just raised the same-type error while the list
\* held a connection.
C4_Witness == last = Last("connectPorts", SameTypeError) /\ Len(connections) = 1

(***************************************************************************)
(* Properties of the pointer handlers.                                     *)
(***************************************************************************)
\* what findComponentAt returns at the canvas-local point p
Hit(p) == findComponentAt(p[1], p[2])
\* the step is a left pointer-down at p
IsLeftDown(p) == last'.op = "mouseDown" /\ MouseDown(0, p)
\* the connections of `list` that join the unordered pair {a, b}
Joining(list, a, b) ==
    {i \in 1..Len(list) : {list[i].sourcePort, list[i].targetPort} = {a, b}}
\* `list` holds exactly one connection over {source, target}, so oriented
ExactlyOne(list, source, target) ==
    /\ Cardinality(Joining(list, source, target)) = 1
    /\ \A i \in Joining(list, source, target) :
          list[i].sourcePort = source /\ list[i].targetPort = target
\* the first click of the gesture at p: nothing pending, an output port hit
FirstClick(p) ==
    /\ last'.op = "mouseDown"
    /\ pendingConnectionPort = NoComponent
    /\ IsPort(Hit(p))
    /\ PortOf(Hit(p)).type = "output"
    /\ IsLeftDown(p)
\* the second click at q: an output port pending, an input port of another
\* node hit
SecondClick(q) ==
    /\ last'.op = "mouseDown"
    /\ pendingConnectionPort # NoComponent
    /\ PortOf(pendingConnectionPort).type = "output"
    /\ IsPort(Hit(q))
    /\ PortOf(Hit(q)).type = "input"
    /\ Hit(q).node # pendingConnectionPort.node
    /\ IsLeftDown(q)

\* C5 as stated: with nothing pending, a left pointer-down on an output port
\* of A makes it the pending port; pointer-moves and pointer-ups keep it; a
\* left pointer-down on an input port of another node B then leaves exactly
\* one connection from A's port to B's port and nothing pending.
C5_TwoClick ==
    [][/\ \A p \in ScreenPoints : FirstClick(p) => pendingConnectionPort' = Hit(p)
       /\ last'.op \in {"mouseMove", "mouseUp"}
             => pendingConnectionPort' = pendingConnectionPort
       /\ \A q \in ScreenPoints :
             SecondClick(q)
                 => /\ ExactlyOne(connections', pendingConnectionPort, Hit(q))
                    /\ pendingConnectionPort' = NoComponent]_vars

\* C5 amended: the same gesture, for pointer-downs that arrive while the
\* context menu is closed.
C5_TwoClickMenuClosed ==
    [][/\ \A p \in ScreenPoints :
             ~menuOpen /\ FirstClick(p) => pendingConnectionPort' = Hit(p)
       /\ last'.op \in {"mouseMove", "mouseUp"}
             => pendingConnectionPort' = pendingConnectionPort
       /\ \A q \in ScreenPoints :
             ~menuOpen /\ SecondClick(q)
                 => /\ ExactlyOne(connections', pendingConnectionPort, Hit(q))
                    /\ pendingConnectionPort' = NoComponent]_vars

\* C5 witness: the second click of a gesture has just made the one connection
\* of the list, after a pointer-move in between.
C5_Witness ==
    /\ last = Last("mouseDown", "connected")
    /\ Len(connections) = 1
    /\ pendingConnectionPort = NoComponent
    /\ hoveredComponent # NoComponent

\* C6: with a connection pending on P and the context menu closed, a left
\* pointer-down that hits another port Q clears the pending port and the
\* tracked pointer position, whether the attempt is accepted or rejected.
C6_PendingCleared ==
    [][\A q \in ScreenPoints :
          /\ last'.op = "mouseDown"
          /\ ~menuOpen
          /\ pendingConnectionPort # NoComponent
          /\ IsPort(Hit(q))
          /\ Hit(q) # pendingConnectionPort
          /\ IsLeftDown(q)
          => /\ pendingConnectionPort' = NoComponent
             /\ mousePosition' = NoPosition]_vars

\* C7: at most one of panning, dragging a node and a pending connection holds
\* in every reachable state.
C7_ModesExclusive ==
    Cardinality({m \in {"panning", "dragging", "pending"} :
                    \/ m = "panning" /\ isPanning
                    \/ m = "dragging" /\ isDraggingNode
                    \/ m = "pending" /\ pendingConnectionPort # NoComponent}) <= 1

\* C8: a pointer-up ends panning and dragging (both flags false, no drag node)
\* and keeps the pending port; a pending port is cleared by no step but a left
\* pointer-down on a different port.
C8_PointerUp ==
    [][/\ last'.op = "mouseUp"
             => /\ ~isPanning'
                /\ ~isDraggingNode'
                /\ dragNode' = 0
                /\ pendingConnectionPort' = pendingConnectionPort
       /\ pendingConnectionPort # NoComponent /\ pendingConnectionPort' = NoComponent
             => \E q \in ScreenPoints :
                   IsPort(Hit(q)) /\ Hit(q) # pendingConnectionPort /\ IsLeftDown(q)]_vars

\* C8 witness: a pointer-up has just ended a drag that was started while a
\* connection was pending, and the connection is still pending.
C8_Witness ==
    /\ last = Last("mouseUp", "ok")
    /\ pendingConnectionPort # NoComponent
    /\ dragOffsetX # RInt(0)
    /\ ~isDraggingNode
    /\ dragNode = 0

(***************************************************************************)
(* Properties of removeNode and clear.                                     *)
(***************************************************************************)
\* the connections of `list`, in order, with no port on node n
RECURSIVE NotTouching(_, _)
NotTouching(list, n) ==
    IF list = <<>> THEN <<>>
    ELSE (IF Head(list).sourcePort.node # n /\ Head(list).targetPort.node # n
          THEN <<Head(list)>> ELSE <<>>) \o NotTouching(Tail(list), n)

\* C9: removeNode of a node n of the list takes n out of the node list, takes
\* out every connection with a port on n, deletes n's Style State, and keeps
\* the other nodes and the other connections in place and in order.
C9_RemoveNode ==
    [][last' = Last("removeNode", "ok")
          => \E i \in 1..Len(nodes) :
                /\ nodes' = SubSeq(nodes, 1, i - 1) \o SubSeq(nodes, i + 1, Len(nodes))
                /\ connections' = NotTouching(connections, nodes[i])
                /\ nodes[i] \in DOMAIN nodeStyles
                /\ nodes[i] \notin DOMAIN nodeStyles']_vars

\* C9 witness: a node has just been removed, and two nodes and the connection
\* between them are left.
C9_Witness ==
    /\ last = Last("removeNode", "ok")
    /\ Len(nodes) = 2
    /\ Len(connections) = 1

\* C10: after clear() the node list and the connection list are empty.
C10_ClearEmpties == last.op = "clear" => nodes = <<>> /\ connections = <<>>

\* C10 witness: clear() has just run on a list of two nodes (removeNode would
\* have deleted their Style States; clear leaves them in the registry).
C10_Witness == last.op = "clear" /\ Len(nodeObjs) = 2 /\ DOMAIN nodeStyles = {1, 2}

(***************************************************************************)
(* Properties of the style engine.                                         *)
(***************************************************************************)
\* the resolved value of the top-level property key of a style object
Resolved(style, key) == getTransitionableProp(style.props[key]).value

\* handleHover(true) and then handleHover(false) were the last two calls,
\* both on entity e, which had a Style State with a hover sub-record
HoverRoundTrip(e) ==
    /\ callBefore.op = "hoverIn"
    /\ call.op = "hoverOut"
    /\ callBefore.entity = e
    /\ call.entity = e
    /\ e \in DOMAIN callBefore.before
    /\ callBefore.before[e].currentState.hover.defined

\* C11: after handleHover(true) and then handleHover(false) on an entity that
\* has a hover sub-record, every resolved top-level property is what it was
\* before handleHover(true), and in between every property the hover
\* sub-record names resolved to its hover value.
C11_HoverRoundTrip ==
    \A e \in Entities :
        HoverRoundTrip(e) =>
            LET start == callBefore.before[e].currentState
                hovered == call.before[e].currentState
                end == registry[e].currentState
            IN  /\ DOMAIN end.props = DOMAIN start.props
                /\ \A key \in DOMAIN start.props : Resolved(end, key) = Resolved(start, key)
                /\ \A key \in DOMAIN start.hover.props :
                       Resolved(hovered, key) = start.hover.props[key]

\* a node that was given a hover fill went through the round trip, and the
\* fill it showed while hovered was not its own
C11_Witness ==
    /\ HoverRoundTrip("node")
    /\ Resolved(call.before["node"].currentState, "fill")
           # Resolved(callBefore.before["node"].currentState, "fill")
    /\ Resolved(registry["node"].currentState, "fill")
           = Resolved(callBefore.before["node"].currentState, "fill")

\* the last two calls were setStyle(e, s) twice with deep-equal s, on an
\* entity that had a Style State, and the first changed a top-level property
SetTwice(e) ==
    /\ callBefore.op = "setStyle"
    /\ call.op = "setStyle"
    /\ callBefore.entity = e
    /\ call.entity = e
    /\ e \in DOMAIN callBefore.before
    /\ deepEqualStyle(callBefore.style, call.style)
    /\ \E key \in DOMAIN callBefore.style.props :
           ~sameValue(callBefore.before[e].currentState.props[key],
                      call.before[e].currentState.props[key])

\* C12: setStyle(e, s) twice in a row with deep-equal s, the first changing a
\* top-level property of an entity that has a Style State, emits exactly one
\* 'update' event: the first call emits it, the second emits none.
C12_OneUpdate ==
    \A e \in Entities :
        SetTwice(e) => callBefore.event = "update" /\ call.event # "update"

\* the Animation object with the given id
AnimationOf(id) == CHOOSE a \in animations : a.id = id

\* C13: when setStyle updates the Style State of an entity, an animation is
\* requested for a changed top-level property only if the value the property
\* had before the call was a wrapper with transition = true.
C13_OnlyTransitionable ==
    (call.op = "setStyle" /\ call.event = "update") =>
        \A id \in call.requested :
            call.before[call.entity].currentState.props[AnimationOf(id).prop].transition
                = "true"

\* C14: right after the first setStyle of an entity the previousState of its
\* Style State is its currentState; after every later setStyle (a call of
\* the host or the one handleHover makes) it is the currentState that was
\* stored just before the call.
C14_PreviousState ==
    call.stored =>
        LET e == call.entity
        IN  IF e \notin DOMAIN call.before
            THEN registry[e].previousState = registry[e].currentState
            ELSE registry[e].previousState = call.before[e].currentState

\* a setStyle on an entity whose Style State had already been updated, and
\* which changed the style once more
C14_Witness ==
    /\ call.op = "setStyle"
    /\ call.entity \in DOMAIN call.before
    /\ call.before[call.entity].previousState # call.before[call.entity].currentState
    /\ registry[call.entity].currentState # registry[call.entity].previousState

\* the style object a overlaid by the partial style b, key by key
Overlaid(a, b, result) ==
    /\ DOMAIN result.props = DOMAIN a.props \cup DOMAIN b.props
    /\ \A key \in DOMAIN result.props :
           result.props[key] = IF key \in DOMAIN b.props THEN b.props[key] ELSE a.props[key]
    /\ \A key \in SubKeys :
           result[key] = IF key \in b.own THEN b[key] ELSE a[key]

\* C15: the first setStyle of an entity without a Style State stores the
\* manager's current defaults of its kind overlaid by the given style and emits
\* 'add' (and no 'update'); a setStyle of an entity that has a Style State
\* emits no 'add'.
C15_FirstSetStyle ==
    call.stored =>
        LET e == call.entity
        IN  IF e \notin DOMAIN call.before
            THEN /\ call.event = "add"
                 /\ Overlaid(managerDefaults[e], call.style, registry[e].currentState)
            ELSE call.event # "add"

\* a node given a style of its own at its first setStyle, after
\* setDefaultStyles had replaced the built-in default width
C15_Witness ==
    /\ call.op = "setStyle"
    /\ call.entity = "node"
    /\ "node" \notin DOMAIN call.before
    /\ DOMAIN call.style.props # {}
    /\ managerDefaults["node"].props["width"] # defaultStyles["node"].props["width"]
    /\ registry["node"].currentState.props["width"] = managerDefaults["node"].props["width"]

(***************************************************************************)
(* Properties of the animation engine.                                     *)
(***************************************************************************)
\* a step in which the scheduler ticks: frameLoop or the scheduler's own
\* loop is called with the timestamp of the frame
Tick == frameQueue # <<>> /\ frameQueue' = Tail(frameQueue)

\* how often onComplete of the Animation with the given id is in the log
Completions(log, id) == Cardinality({i \in 1..Len(log) : log[i].id = id})

\* the Animation a is live
Live(set, a) == \E x \in set : x.id = a.id

\* what one tick does to the live animation a: a single run whose end has
\* come completes once and leaves the live set, any other stays and does not
\* complete
TickOf(a) ==
    IF ~a.loop /\ frameTime >= a.startTime + a.duration
    THEN /\ ~Live(animations', a)
         /\ Completions(completed, a.id) = 0
         /\ Completions(completed', a.id) = 1
    ELSE /\ Live(animations', a)
         /\ Completions(completed', a.id) = 0

\* C16: a non-looping animation completes exactly once, on the first tick
\* whose timestamp is at least startTime + duration; that tick removes it
\* from the live set, so that no later tick of either loop advances it.  A
\* looping animation never finishes and never completes.
C16_CompletesOnce ==
    [][Tick => \A a \in animations : TickOf(a)]_vars

\* the same for animations whose duration is positive
C16_PositiveDuration ==
    [][Tick => \A a \in animations : a.duration > 0 => TickOf(a)]_vars

\* the ids of the Animation objects a behaviour may construct
AnimationIds == 1..MaxAnimCalls

\* a live single run of positive duration whose end lies in the explored time
EndingRun(id) ==
    \E a \in animations :
        /\ a.id = id
        /\ ~a.loop
        /\ a.duration > 0
        /\ a.startTime + a.duration <= MaxTicks * TimeUnit

\* C17: while frames keep firing with increasing timestamps, every live
\* non-looping animation of positive duration (whose end the explored time
\* reaches) is eventually removed from the live set, and no step ever
\* removes a looping animation.
C17_EventuallyRemoved ==
    /\ <>[](\A id \in AnimationIds : ~EndingRun(id))
    /\ [][\A a \in animations : a.loop => Live(animations', a)]_vars

\* a single run of positive duration has completed and left the live set
\* while a looping animation, ticked as often, is still live
C17_Witness ==
    /\ \E i \in 1..Len(completed) :
           /\ completed[i].time >= 2 * TimeUnit
           /\ \A a \in animations : a.id # completed[i].id
    /\ \E a \in animations : a.loop /\ a.startTime + a.duration <= frameTime
    /\ frameQueue = <<>>

\* a call of the host has just added a Style State entry with an animation
\* sub-record
AddedAnimated ==
    /\ steps' # steps
    /\ call'.event = "add"
    /\ registry'[call'.entity].currentState.animation.defined

\* Animation.update never returns true for a, whatever the timestamp
NeverFinishes(a) ==
    \A k \in 0..(2 * MaxTicks) : ~updateDone(a, a.startTime + k * TimeUnit)

\* Animation.update returns true for a once its duration has passed
Finishes(a) == updateDone(a, a.startTime + a.duration + TimeUnit)

\* every entry of the added animation sub-record has become a live animation,
\* looping if the loop entry of its descriptor is one of those given
AddedAnimations(looping) ==
    LET e == call'.entity
        animation == registry'[e].currentState.animation.props
    IN  \A key \in DOMAIN animation :
            \E a \in animations' \ animations :
                /\ a.entity = e
                /\ a.prop = key
                /\ a.from = animation[key].from
                /\ a.to = animation[key].to
                /\ a.loop = (animation[key].loop \in looping)
                /\ IF animation[key].loop \in looping THEN NeverFinishes(a) ELSE Finishes(a)

\* C18 as stated: when a Style State entry is added, each property under its
\* animation sub-record becomes a live animation that loops by default: it
\* never reports finished unless the descriptor has loop explicitly false.
C18_LoopsByDefault ==
    [][AddedAnimated => AddedAnimations({"omitted", "true"})]_vars

\* C18: when a Style State entry is added, each property under its animation
\* sub-record becomes a live animation that is a single run by default: it
\* never reports finished only if the descriptor has loop explicitly true,
\* and a descriptor that omits loop or has loop false yields a single run
\* that finishes.
C18_SingleRunByDefault ==
    [][AddedAnimated => AddedAnimations({"true"})]_vars

\* the animation of an added entry whose descriptor omits loop has completed
C18_Witness ==
    /\ call.event = "add"
    /\ call.entity \in DOMAIN registry
    /\ registry[call.entity].currentState.animation.defined
    /\ \E key \in DOMAIN registry[call.entity].currentState.animation.props :
           registry[call.entity].currentState.animation.props[key].loop = "omitted"
    /\ \E i \in 1..Len(completed) : completed[i].id \in call.requested
\* the tick completes the declared animation a
Completes(a) ==
    /\ Tick
    /\ a.declared
    /\ ~a.loop
    /\ Completions(completed', a.id) > Completions(completed, a.id)

\* the value onComplete of the animation with the given id was called with last
FinalValue(log, id) ==
    log[CHOOSE i \in 1..Len(log) :
            log[i].id = id /\ \A j \in (i + 1)..Len(log) : log[j].id # id].value

\* C19: when a non-looping declared animation of property p on entity e
\* completes with final value v, the Style State the registry returns for e
\* has currentState[p] = v.
C19_FinalValueCommitted ==
    [][\A a \in animations :
           (Completes(a) /\ a.entity \in DOMAIN registry') =>
               /\ a.prop \in DOMAIN registry'[a.entity].currentState.props
               /\ registry'[a.entity].currentState.props[a.prop].value
                      = FinalValue(completed', a.id)]_vars
(***************************************************************************)
(* Properties of hit testing.                                              *)
(***************************************************************************)
\* the ports of the scene whose circle holds the world point w (squared
\* distance <= squared radius, which needs |dx|, |dy| <= radius), each as
\* <<place of its node in the list, place of the port in the node>>
PortsHolding(w) ==
    {ik \in UNION {{<<i, k>> : k \in 1..Len(nodeObjs[nodes[i]].ports)} : i \in 1..Len(nodes)} :
        LET node == nodeObjs[nodes[ik[1]]]
            dx == RSub(w.x, RAdd(node.position.x, node.ports[ik[2]].position.x))
            dy == RSub(w.y, RAdd(node.position.y, node.ports[ik[2]].position.y))
            r == RInt(DefaultPortRadius)
        IN  /\ RLe(RSub(RInt(0), r), dx) /\ RLe(dx, r)
            /\ RLe(RSub(RInt(0), r), dy) /\ RLe(dy, r)
            /\ RLe(RAdd(RMul(dx, dx), RMul(dy, dy)), RMul(r, r))}

\* the places in the list of the nodes whose rectangle holds w
NodesHolding(w) ==
    {i \in 1..Len(nodes) :
        LET node == nodeObjs[nodes[i]]
            style == nodeStyles[nodes[i]].currentState
        IN  /\ RLe(node.position.x, w.x) /\ RLe(w.x, RAdd(node.position.x, style.width))
            /\ RLe(node.position.y, w.y) /\ RLe(w.y, RAdd(node.position.y, style.height))}

\* the first of the ports holding w, in node-list then port-list order
FirstHolding(w) ==
    CHOOSE ik \in PortsHolding(w) :
        \A other \in PortsHolding(w) :
            ik[1] < other[1] \/ (ik[1] = other[1] /\ ik[2] <= other[2])

\* C20: hit testing at a screen point returns the first port (node-list then
\* port-list order) whose circle holds the corresponding world point, even
\* when a node rectangle holds the point as well; otherwise the most recently
\* added node whose rectangle, of the width and height of its current Style
\* State, holds the point; otherwise null.
C20_HitTest ==
    \A p \in ScreenPoints :
        LET w == toWorld(p[1], p[2])
        IN  Hit(p) =
                IF PortsHolding(w) # {}
                THEN Comp(nodes[FirstHolding(w)[1]], FirstHolding(w)[2])
                ELSE IF NodesHolding(w) # {}
                THEN Comp(nodes[CHOOSE i \in NodesHolding(w) :
                                    \A j \in NodesHolding(w) : j <= i], 0)
                ELSE NoComponent

\* one point lies in a port circle and in the rectangle of another node, and
\* another point lies in no port circle but in two rectangles, in one of them
\* only because that node is wider than the default
C20_Witness ==
    /\ \E p \in ScreenPoints :
           LET w == toWorld(p[1], p[2])
           IN  /\ PortsHolding(w) # {}
               /\ \E i \in NodesHolding(w) : i # FirstHolding(w)[1]
    /\ \E q \in ScreenPoints :
           LET w == toWorld(q[1], q[2])
           IN  /\ PortsHolding(w) = {}
               /\ Cardinality(NodesHolding(w)) >= 2
               /\ \E i \in NodesHolding(w) :
                      ~RLe(w.x, RAdd(nodeObjs[nodes[i]].position.x, RInt(DefaultNodeWidth)))
(***************************************************************************)
(* Properties of dragging, zooming and hovering.                           *)
(***************************************************************************)
\* the step is a pointer-move to p that drags the grabbed node
IsDragMove(p) == last'.op = "mouseMove" /\ last'.result = "drag" /\ MouseMove(p)

\* the point of the pointer-down lies on the world point it lay on then
ViewAsGrabbed ==
    /\ RSub(toWorld(grab.point[1], grab.point[2]).x, dragOffsetX) = grab.position.x
    /\ RSub(toWorld(grab.point[1], grab.point[2]).y, dragOffsetY) = grab.position.y

IsWheel(p) == last'.op = "wheel" /\ \E zoomIn \in BOOLEAN : Wheel(p, zoomIn)

\* C22: a wheel event at screen point p multiplies the scale by 1.1 (zoom in)
\* or divides it by 1.1 (zoom out), and toWorld(p) under the transform after
\* the event equals toWorld(p) under the transform before it.
C22_WheelAnchored ==
    [][last'.op = "wheel" =>
           \E p \in ScreenPoints :
               /\ IsWheel(p)
               /\ scale' = IF last'.result = "in" THEN RMul(scale, Rat(11, 10))
                           ELSE RDiv(scale, Rat(11, 10))
               /\ toWorldWith(scale', offsetX', offsetY', p[1], p[2]) = toWorld(p[1], p[2])]_vars

\* a wheel event has changed the scale and moved the offset
C22_Witness ==
    /\ last.op = "wheel"
    /\ scale # RInt(1)
    /\ offsetX # RInt(0)
    /\ offsetY # RInt(0)

(***************************************************************************)
(* Properties of the loop modes and of the scheduler.                      *)
(***************************************************************************)
\* a looping ping-pong animation of a number with linear easing
PingPongLinear(a) ==
    /\ a.loop
    /\ a.loopMode = "ping-pong"
    /\ a.easing = "linear"
    /\ a.from.kind = "number"
    /\ a.duration > 0

\* the endpoint a ping-pong animation is at after k durations
Endpoint(a, k) == IF k % 2 = 0 THEN a.from ELSE a.to

\* C23: a looping ping-pong number animation with linear easing emits `from`
\* on a tick at elapsed = k * duration when k is even and `to` when k is odd,
\* for every integer k >= 0.
C23_PingPong ==
    [][Tick =>
           \A a \in animations :
               PingPongLinear(a) =>
                   /\ \A k \in 0..(2 * MaxTicks) :
                          updateValue(a, a.startTime + k * a.duration) = Endpoint(a, k)
                   /\ \A k \in 0..MaxTicks :
                          (frameTime = a.startTime + k * a.duration /\ a.declared) =>
                              activeAnimations'[a.entity][a.prop] = Endpoint(a, k)]_vars

\* a ping-pong animation has been ticked after an odd number of durations,
\* at least three, and is at `to`
C23_Witness ==
    \E a \in animations :
        /\ PingPongLinear(a)
        /\ frameQueue = <<>>
        /\ frameTime >= a.startTime + 3 * a.duration
        /\ (frameTime - a.startTime) % (2 * a.duration) = a.duration
        /\ a.entity \in DOMAIN activeAnimations
        /\ activeAnimations[a.entity][a.prop] = a.to
\* how many callbacks of the scheduler's own loop are registered or waiting
\* in the frame under way
PendingLoops(registered, waiting) ==
    Cardinality({i \in 1..Len(registered) : registered[i] = "loop"})
        + Cardinality({i \in 1..Len(waiting) : waiting[i] = "loop"})

\* the step is a call of the scheduler's own loop
IsLoop == frameQueue # <<>> /\ Head(frameQueue) = "loop" /\ frameQueue' = Tail(frameQueue)

\* C24: whenever the live set is not empty a callback of the scheduler's own
\* loop is pending; the loop does not re-arm itself once the live set is
\* empty, and clears the running flag then, so that a later requestAnimation
\* always arms a new callback.
C24_LoopRearms ==
    [][/\ animations' # {} => PendingLoops(rafQueue', frameQueue') = 1
       /\ isRunning' <=> PendingLoops(rafQueue', frameQueue') = 1
       /\ IsLoop => (IF animations' = {}
                     THEN PendingLoops(rafQueue', frameQueue') = 0 /\ ~isRunning'
                     ELSE "loop" = rafQueue'[Len(rafQueue')])
       /\ (steps' # steps /\ call'.requested # {}) =>
              /\ PendingLoops(rafQueue', frameQueue') = 1
              /\ PendingLoops(rafQueue, frameQueue) = 0 =>
                     (~isRunning /\ "loop" = rafQueue'[Len(rafQueue')])]_vars

\* the live set had drained and the loop had stopped; the animation requested
\* afterwards is live and a callback of the loop is pending again
C24_Witness ==
    /\ completed # <<>>
    /\ call.requested # {}
    /\ \A a \in animations :
           /\ a.id \in call.requested
           /\ \A i \in 1..Len(completed) :
                  completed[i].id < a.id /\ completed[i].time <= a.startTime
    /\ animations # {}
    /\ \A id \in 1..(nextAnimation - 1) :
           (\E a \in animations : a.id = id) \/ (\E i \in 1..Len(completed) : completed[i].id = id)
    /\ PendingLoops(rafQueue, frameQueue) = 1
    /\ frameQueue = <<>>
(***************************************************************************)
(* Properties of the overrides and of pointer moves.                       *)
(***************************************************************************)
\* the step is a tick: Editor.frameLoop or the scheduler's own loop
IsTick == frameQueue # <<>> /\ frameQueue' = Tail(frameQueue)

\* the Animation objects of property prop of entity that emit a value in a tick
Emitters(entity, prop) == {a \in animations : a.entity = entity /\ a.prop = prop}

\* the one of them visited last
LastEmitter(entity, prop) ==
    CHOOSE a \in Emitters(entity, prop) : \A b \in Emitters(entity, prop) : b.id <= a.id

\* the overrides entry of prop of entity: one value, or none
Override(overrides, entity, prop) ==
    IF entity \in DOMAIN overrides /\ prop \in DOMAIN overrides[entity]
    THEN {overrides[entity][prop]}
    ELSE {}

\* C25: after a tick in which a live animation of property p of entity e,
\* declared or a transition, emitted the value v, the overrides entry of e
\* maps p to v (the value of the animation visited last); the entries of
\* the other properties and entities are unchanged.
C25_OverridesLatest ==
    [][IsTick =>
          \A entity \in {a.entity : a \in animations} \cup DOMAIN activeAnimations :
              \A prop \in {a.prop : a \in animations}
                              \cup (IF entity \in DOMAIN activeAnimations
                                    THEN DOMAIN activeAnimations[entity] ELSE {}) :
                  Override(activeAnimations', entity, prop) =
                      IF Emitters(entity, prop) # {}
                      THEN {updateValue(LastEmitter(entity, prop), frameTime)}
                      ELSE Override(activeAnimations, entity, prop)]_vars
\* C26: while a connection is pending a pointer move refreshes the hovered
\* component and the tracked pointer position only: the offset, the scale
\* and every node are as before, whether a pan or a drag is under way or not.
C26_PendingMove ==
    [][(/\ last'.op = "mouseMove"
        /\ pendingConnectionPort # NoComponent
        /\ \E p \in ScreenPoints : MouseMove(p)) =>
           /\ \E p \in ScreenPoints :
                  /\ mousePosition' = toWorld(p[1], p[2])
                  /\ hoveredComponent' = findComponentAt(p[1], p[2])
           /\ UNCHANGED <<offsetX, offsetY, scale, nodeObjs, nodes, connections,
                          pendingConnectionPort, dragVars, panVars, menuVars>>]_vars

\* a pointer move with a connection pending during a drag, at a point where
\* the drag would have moved the node
C26_Witness ==
    /\ last = Last("mouseMove", "pending")
    /\ pendingConnectionPort # NoComponent
    /\ isDraggingNode
    /\ dragNode # 0
    /\ nodeObjs[dragNode].position # dragPosition(mousePosition)

\* the step is a pointer move at canvas-local point p
IsMouseMove(p) == last'.op = "mouseMove" /\ MouseMove(p)

\* C27: after a pointer move the hovered component is the result of the
\* move's hit test at the pointer; when it changed from A to B, A was given
\* handleHover(false) before B was given handleHover(true), and when it did
\* not change no handleHover was called; at most one component has
\* isHovered = true, the hovered one.
C27_HoverTracking ==
    [][(last'.op = "mouseMove" =>
           LET off == [component |-> hoveredComponent, isHovered |-> FALSE]
               on == [component |-> hoveredComponent', isHovered |-> TRUE]
               calls == hoverLog'
           IN  /\ \E p \in ScreenPoints :
                      IsMouseMove(p) /\ hoveredComponent' = findComponentAt(p[1], p[2])
               /\ hoveredComponent' = hoveredComponent => calls = <<>>
               /\ \A i \in 1..Len(calls) : calls[i] \in {off, on}
               /\ \A i, j \in 1..Len(calls) : (calls[i] = off /\ calls[j] = on) => i < j
               /\ (hoveredComponent' # hoveredComponent /\ hoveredComponent # NoComponent) =>
                      Cardinality({i \in 1..Len(calls) : calls[i] = off}) = 1
               /\ (hoveredComponent' # hoveredComponent /\ hoveredComponent' # NoComponent) =>
                      Cardinality({i \in 1..Len(calls) : calls[i] = on}) = 1
               /\ \A i \in 1..Len(calls) : calls[i].component # NoComponent)
       /\ hoverFlags' = {hoveredComponent'} \ {NoComponent}
       /\ Cardinality(hoverFlags') <= 1]_vars

\* the pointer has moved from one component onto another one
C27_Witness ==
    /\ last.op = "mouseMove"
    /\ Len(hoverLog) = 2
    /\ hoverLog[1].component # hoverLog[2].component
    /\ hoverFlags = {hoveredComponent}
    /\ hoveredComponent = hoverLog[2].component

(***************************************************************************)
(* Properties of style updates.                                            *)
(***************************************************************************)
\* the record `new` is `old` overlaid key by key with `over`
OverlaidKeys(new, old, over) ==
    /\ DOMAIN new = DOMAIN old \cup DOMAIN over
    /\ \A k \in DOMAIN new : new[k] = IF k \in DOMAIN over THEN over[k] ELSE old[k]

\* the step is a setStyle call on an entity that has a Style State
IsStyleUpdate ==
    /\ steps' = steps + 1
    /\ call'.op = "setStyle"
    /\ call'.entity \in DOMAIN registry

\* C28: withUpdate(u) returns a state whose hover, active and animation
\* sub-records are those of the receiver overlaid key by key with u's (a
\* sub-record u lacks is kept as it is), whose other top-level keys take u's
\* value when u has one and the receiver's otherwise; the receiver's
\* currentState is the previousState of the result, and the receiver as the
\* call found it is unmodified.
C28_WithUpdate ==
    [][IsStyleUpdate =>
          LET receiver == registry[call'.entity]
              u == call'.style
              result == registry'[call'.entity]
          IN  /\ \A sub \in SubKeys :
                     IF u[sub].defined
                     THEN /\ result.currentState[sub].defined
                          /\ OverlaidKeys(result.currentState[sub].props,
                                      receiver.currentState[sub].props, u[sub].props)
                     ELSE result.currentState[sub] = receiver.currentState[sub]
              /\ OverlaidKeys(result.currentState.props, receiver.currentState.props, u.props)
              /\ result.previousState = receiver.currentState
              /\ call'.before[call'.entity] = receiver]_vars

\* an update whose hover sub-record lacks a key of the stored one and brings
\* a new one, after an update that changed a top-level property
C28_Witness ==
    /\ call.op = "setStyle"
    /\ call.entity \in DOMAIN call.before
    /\ call.style.hover.defined
    /\ LET old == call.before[call.entity].currentState.hover.props
           new == registry[call.entity].currentState.hover.props
       IN  /\ DOMAIN old \ DOMAIN call.style.hover.props # {}
           /\ DOMAIN call.style.hover.props \ DOMAIN old # {}
           /\ DOMAIN new = DOMAIN old \cup DOMAIN call.style.hover.props
    /\ registry[call.entity].currentState.props # defaultStyles[call.entity].props
\* the top-level properties, hover, active and animation apart, that a style
\* call changed
ChangedKeys ==
    computeStyleUpdate(call'.entity, registry[call'.entity], registry'[call'.entity])

\* C29: a style call on an entity that has a Style State notifies the
\* style-change callback only when it changed a top-level property other
\* than hover, active and animation; a call that changed none notifies
\* nobody and requests no animation.
C29_CallbackOnChange ==
    [][(/\ steps' = steps + 1
        /\ call'.stored
        /\ call'.entity \in DOMAIN registry
        /\ ChangedKeys = <<>>) =>
           (call'.callbacks = 0 /\ call'.requested = {})]_vars
\* C30: only the 'add' of a Style State turns the entries of its animation
\* sub-record into live animations: a style call on an entity that has a
\* Style State, whatever its animation sub-record adds or changes, requests
\* no declared animation, and every declared animation is requested by a
\* call that emitted 'add'.
C30_DeclaredOnAdd ==
    [][\A a \in {b \in animations' : b.id >= nextAnimation} :
           a.declared =>
               /\ call'.entity \notin DOMAIN registry
               /\ call'.event = "add"
               /\ a.id \in call'.requested
               /\ a.prop \in DOMAIN call'.style.animation.props]_vars

\* an update whose animation sub-record is new to the Style State went by
\* and nothing is animated
C30_Witness ==
    /\ call.event = "update"
    /\ call.entity \in DOMAIN call.before
    /\ call.style.animation.defined
    /\ ~call.before[call.entity].currentState.animation.defined
    /\ registry[call.entity].currentState.animation = call.style.animation
    /\ call.requested = {}
    /\ animations = {}
    /\ nextAnimation = 1
(***************************************************************************)
(* Properties of removal, of failures and of defaults.                     *)
(***************************************************************************)
\* the live animations of entities that have no Style State
Orphans == {a \in animations : a.entity \notin DOMAIN registry}

\* C31: deleting the Style State of a node cancels nothing: the live set, the
\* overrides, the running flag and the pending callbacks are as before, and
\* on every later tick each animation of the node is updated as any other:
\* its onUpdate runs, and it leaves the live set only when its single run is
\* finished.
C31_DeleteCancelsNothing ==
    [][/\ (steps' # steps /\ call'.op = "deleteNodeStyle") =>
              /\ call'.entity \notin DOMAIN registry'
              /\ UNCHANGED <<animations, activeAnimations, isRunning, rafQueue, frameQueue>>
       /\ IsTick =>
              \A a \in Orphans :
                  /\ (a.declared /\ a = LastEmitter(a.entity, a.prop)) =>
                         Override(activeAnimations', a.entity, a.prop)
                             = {updateValue(a, frameTime)}
                  /\ IF updateDone(a, frameTime)
                     THEN /\ \A b \in animations' : b.id # a.id
                          /\ \E i \in 1..Len(completed') :
                                 /\ i > Len(completed)
                                 /\ completed'[i].id = a.id
                     ELSE \E b \in animations' : b.id = a.id]_vars

\* a frame under way after the Style State of the node was deleted: its
\* declared animation is live and the frame loop has just stored its value
C31_Witness ==
    /\ call.op = "deleteNodeStyle"
    /\ "node" \notin DOMAIN registry
    /\ frameQueue = <<"loop">>
    /\ \E a \in Orphans :
           /\ a.declared
           /\ a.startTime < frameTime
           /\ Override(activeAnimations, a.entity, a.prop) = {updateValue(a, frameTime)}
\* the step is an addNode call with these parameters
IsAddNode(position, portParams, style) ==
    last'.op = "addNode" /\ Len(nodeObjs') = Len(nodeObjs) + 1
        /\ AddNode(position, portParams, style)

\* C32: every port of a node addNode created, with a style parameter or
\* without, has x = 0 when it is an input and x = the node's resolved width
\* when it is an output, and its y is the requested y clamped into
\* [0, the node's resolved height].
C32_PortPositions ==
    [][\A position \in NodePositions, portParams \in ClampPortParams,
          style \in PartialStyleParams :
           IsAddNode(position, portParams, style) =>
               LET n == Len(nodeObjs')
                   resolved == nodeStyles'[n].currentState
                   ports == nodeObjs'[n].ports
               IN  /\ Len(ports) = Len(portParams)
                   /\ \A k \in 1..Len(ports) :
                          /\ ports[k].type = portParams[k].type
                          /\ ports[k].position.x =
                                 IF ports[k].type = "input" THEN RInt(0) ELSE resolved.width
                          /\ ports[k].position.y =
                                 RMin(resolved.height, RMax(RInt(0), portParams[k].position.y))]_vars
\* requests the Animation constructor refuses: two strings that are no
\* colours, a number and a colour, a colour and a number
BadRequests ==
    {[from |-> pair[1], to |-> pair[2], duration |-> TransitionDuration, easing |-> "linear",
      loop |-> FALSE, loopMode |-> "none", entity |-> "node", prop |-> "width",
      declared |-> FALSE, target |-> 0] :
         pair \in {<<Text(1), Text(2)>>, <<Num(100), Colour(255)>>, <<Colour(255), Num(100)>>}}

\* the scheduler as requestAnimation finds it
Scheduler ==
    [animations |-> animations, isRunning |-> isRunning, rafQueue |-> rafQueue,
     nextAnimation |-> nextAnimation, raised |-> FALSE]

\* C33: a requestAnimation whose from and to have mismatched or unsupported
\* shapes raises in the Animation constructor and leaves the scheduler as it
\* was: no new member of the live set, the running flag and the pending loop
\* callback as before the call.
C33_FailedRequest ==
    [][/\ \A options \in BadRequests :
              /\ ~hasInterpolator(options)
              /\ requestAnimations(Scheduler', <<options>>, now')
                     = [Scheduler' EXCEPT !.raised = TRUE]
       /\ (steps' # steps /\ call'.raised) =>
              /\ \A a \in animations' : a.id >= nextAnimation => hasInterpolator(a)
              /\ nextAnimation' - nextAnimation = Cardinality(call'.requested)
              /\ call'.requested = {} =>
                     UNCHANGED <<animations, isRunning, rafQueue, nextAnimation>>]_vars

\* a style call raised on its first request while animations were live, and
\* the scheduler is as the call found it
C33_Witness ==
    /\ call.raised
    /\ call.requested = {}
    /\ animations # {}
    /\ isRunning
    /\ PendingLoops(rafQueue, frameQueue) = 1
\* C34: whatever nodes were added and removed, whatever was connected,
\* disconnected and cleared and wherever the pointer went down, both ports of
\* every connection of the list belong to nodes of the node list.
C34_ConnectionsOfListedNodes ==
    \A i \in 1..Len(connections) :
        /\ connections[i].sourcePort.node \in Range(nodes)
        /\ connections[i].targetPort.node \in Range(nodes)

\* C35: handleHover(true) on a node or a connection whose current style has
\* no hover sub-record leaves every resolved top-level property as it was,
\* also when an earlier setStyle made previousState differ from currentState.
C35_HoverWithoutHoverStyle ==
    [][(/\ steps' # steps
        /\ call'.op = "hoverIn"
        /\ call'.entity \in {"node", "connection"}
        /\ call'.entity \in DOMAIN registry
        /\ ~registry[call'.entity].currentState.hover.defined) =>
           LET before == registry[call'.entity].currentState
               after == registry'[call'.entity].currentState
           IN  /\ DOMAIN after.props = DOMAIN before.props
               /\ \A key \in DOMAIN before.props :
                      Resolved(after, key) = Resolved(before, key)]_vars
\* C36: a setStyle on an entity that has a Style State which raises, because
\* no Animation can be constructed for a changed property, leaves the stored
\* Style State as the call found it.
C36_RaisedUpdateNotStored ==
    [][(/\ steps' # steps
        /\ call'.raised
        /\ call'.entity \in DOMAIN registry) =>
           registry'[call'.entity] = registry[call'.entity]]_vars
\* C37: once a declared single-run animation of property p of entity e has
\* completed (its override is there and no declared animation of p is live),
\* a setStyle(e, {p: v}) makes the style that is drawn, the resolved current
\* style overlaid by the overrides of e, show p = v.
C37_OverrideDoesNotMask ==
    [][(/\ steps' # steps
        /\ call'.op = "setStyle"
        /\ call'.entity \in DOMAIN registry) =>
           \A p \in DOMAIN call'.style.props :
               (/\ Override(activeAnimations, call'.entity, p) # {}
                /\ ~\E a \in animations : a.declared /\ a.entity = call'.entity /\ a.prop = p) =>
                   drawStyle(registry', activeAnimations', call'.entity)[p]
                       = getTransitionableProp(call'.style.props[p]).value]_vars
\* C38: at most one callback of the scheduler's own loop is outstanding, and
\* isRunning is true exactly when one is, however requestAnimation calls,
\* the loop's callbacks and the ticks of the editor's frame loop interleave.
C38_OneLoopOutstanding ==
    /\ PendingLoops(rafQueue, frameQueue) <= 1
    /\ isRunning <=> PendingLoops(rafQueue, frameQueue) = 1

\* an animation was requested between the frame loop's tick and the
\* scheduler's callback of the same frame
C38_Witness ==
    /\ call.op = "setStyleInFrame"
    /\ call.requested # {}
    /\ frameQueue = <<"loop">>
    /\ animations # {}
    /\ isRunning
    /\ \E i \in 1..Len(completed) : completed[i].time = frameTime
\* the value lies between from and to of the Animation a, both included
Between(a, value) ==
    /\ value.kind = "number"
    /\ RLe(RMin(a.from.v, a.to.v), value.v)
    /\ RLe(value.v, RMax(a.from.v, a.to.v))

\* C39: every value a number animation with linear easing passes to onUpdate
\* lies between from and to, both included, in every loop mode and at every
\* timestamp of a tick, one earlier than the recorded startTime included.
C39_ValuesInRange ==
    [][Tick => \A a \in animations :
                  a.from.kind = "number" /\ a.to.kind = "number" /\ a.easing = "linear"
                      => Between(a, updateValue(a, frameTime))]_vars
\* C40: setDefaultStyles called with defaults for one kind of entity leaves
\* the defaults configured before for the other kinds as they were, so that
\* new entities of those kinds are still seeded from them.
C40_OtherDefaultsKept ==
    [][steps' # steps /\ call'.op = "setDefaultStyles"
          => \E styles \in DefaultStyleParams :
                 /\ managerDefaults' =
                        setDefaultStyles([kind \in DOMAIN styles |->
                                              Fresh(styles[kind], steps + 1)])
                 /\ \A kind \in Entities \ DOMAIN styles :
                        /\ managerDefaults'[kind] = managerDefaults[kind]
                        /\ initialState(managerDefaults', kind, EmptyStyle)
                               = initialState(managerDefaults, kind, EmptyStyle)]_vars
=============================================================================
